---- MODULE Spec2Model ----
(***************************************************************************)
(* Forecast orchestration of the pharma sales forecasting service          *)
(* (src/ml-services/realmodel.py).  One request of /predict-csv is         *)
(* followed from the upload through cleaning, frequency detection and the  *)
(* dispatch to the sequence model, the additive model or the trend         *)
(* fallback, down to the response.                                         *)
(*                                                                         *)
(* Time stamps are minutes since 1970-01-01 00:00.  Values are exact:      *)
(* a number (num + 2*sqrt(rad)) / den is the record [num, rad, den].       *)
(***************************************************************************)
EXTENDS Integers, Sequences, FiniteSets, TLC

VARIABLES
    pc,         \* position of the request handler
    req,        \* the request being served: upload, days, category
    df,         \* the cleaned frame (_prep_dataframe's result)
    freq,       \* the detected frequency
    category,   \* the channel the response is about
    horizon,    \* the number of steps asked of _multi_step_forecast
    prophetError, \* the exception caught on the additive path, "" when none
    seq,        \* _multi_step_forecast: the sliding window
    preds,      \* _multi_step_forecast: preds_scaled
    calls,      \* number of model.predict calls made for this request
    transforms, \* number of scaler.transform calls made for this request
    loads,      \* number of joblib.load calls made for this request
    predictor,  \* a PharmaSalesPredictor: is_trained, feature_cols
    disk,       \* the model file save_model writes and load_model reads
    resp        \* the response

vars == <<pc, req, df, freq, category, horizon, prophetError, seq, preds, calls,
          transforms, loads, predictor, disk, resp>>

-----------------------------------------------------------------------------
(* Configuration *)

\* SEQ_LEN = int(os.getenv("SEQ_LEN", 168)): the service is modelled as
\* started with SEQ_LEN=4 in its environment.
SEQ_LEN == 4

PRODUCT_COLS == <<"M01AB", "M01AE", "N02BA", "N02BE", "N05B", "N05C", "R03", "R06">>

DATE_COL == "datum"

\* hist_values[-30:] of the trend fallback
TREND_WINDOW == 30

Channels == {PRODUCT_COLS[i] : i \in 1..Len(PRODUCT_COLS)}

ChanIdx(c) == CHOOSE i \in 1..Len(PRODUCT_COLS) : PRODUCT_COLS[i] = c

-----------------------------------------------------------------------------
(* Bounds of the model *)

MaxShortRows == 5

MaxExtraRows == 1

MaxDays == 2

-----------------------------------------------------------------------------
(* Sequences and exact arithmetic *)

Min(S) == CHOOSE x \in S : \A y \in S : x <= y

Max(S) == CHOOSE x \in S : \A y \in S : x >= y

Range(s) == {s[i] : i \in 1..Len(s)}

RECURSIVE SumSeq(_)
SumSeq(s) == IF s = <<>> THEN 0 ELSE Head(s) + SumSeq(Tail(s))

RECURSIVE Insert(_, _)
Insert(x, s) ==
    IF s = <<>> THEN <<x>>
    ELSE IF x < Head(s) THEN <<x>> \o s
    ELSE <<Head(s)>> \o Insert(x, Tail(s))

RECURSIVE SortInts(_)
SortInts(s) == IF s = <<>> THEN <<>> ELSE Insert(Head(s), SortInts(Tail(s)))

\* s[-k:]
LastK(s, k) ==
    IF Len(s) <= k THEN s ELSE SubSeq(s, Len(s) - k + 1, Len(s))

Q(n, d) == [num |-> n, rad |-> 0, den |-> d]

\* (a.num + 2 sqrt(a.rad)) / a.den >= 0
NonNeg(a) == a.num >= 0 \/ a.num * a.num <= 4 * a.rad

\* a <= b for numbers without a root
QLe(a, b) == a.rad = 0 /\ b.rad = 0 /\ a.num * b.den <= b.num * a.den

-----------------------------------------------------------------------------
(* Calendar: what pandas' Timestamp arithmetic and strftime do *)

DayOf(t) == t \div (24 * 60)

MinuteOfDay(t) == t % (24 * 60)

\* Monday = 0; 1970-01-01 was a Thursday
Weekday(day) == (day + 3) % 7

\* proleptic Gregorian date of a day number (days since 1970-01-01), in steps:
\* the day of the 400-year era, the year of the era, the day of the year
\* counted from March 1, the month counted from March
CivilOfMonth(y0, doy, mp) ==
    [y |-> y0 + (IF mp < 10 THEN 0 ELSE 1),
     m |-> IF mp < 10 THEN mp + 3 ELSE mp - 9,
     d |-> doy - (153 * mp + 2) \div 5 + 1]

CivilOfDoy(y0, doy) == CivilOfMonth(y0, doy, (5 * doy + 2) \div 153)

CivilOfYoe(era, doe, yoe) ==
    CivilOfDoy(yoe + era * 400, doe - (365 * yoe + yoe \div 4 - yoe \div 100))

CivilOfDoe(era, doe) ==
    CivilOfYoe(era, doe,
               (doe - doe \div 1460 + doe \div 36524 - doe \div 146096) \div 365)

Civil(day) == CivilOfDoe((day + 719468) \div 146097, (day + 719468) % 146097)

DaysFromYoe(era, yoe, doy) ==
    era * 146097 + (yoe * 365 + yoe \div 4 - yoe \div 100 + doy) - 719468

DaysFromMarchYear(y, m, d) ==
    DaysFromYoe(y \div 400, y % 400,
                (153 * (IF m > 2 THEN m - 3 ELSE m + 9) + 2) \div 5 + d - 1)

DaysFromCivil(y, m, d) == DaysFromMarchYear(IF m <= 2 THEN y - 1 ELSE y, m, d)

IsLeap(y) == (y % 4 = 0 /\ y % 100 # 0) \/ y % 400 = 0

DaysInMonth(y, m) ==
    IF m = 2 THEN (IF IsLeap(y) THEN 29 ELSE 28)
    ELSE IF m \in {4, 6, 9, 11} THEN 30 ELSE 31

LastDayOfMonth(y, m) == DaysFromCivil(y, m, DaysInMonth(y, m))

\* the last day of the month that is k months after month m of year y
MonthEndDay(y, m, k) ==
    LastDayOfMonth((y * 12 + (m - 1) + k) \div 12, ((y * 12 + (m - 1) + k) % 12) + 1)

\* strftime('%Y-%m-%d'): the calendar date, the time of day dropped
FormatDate(t) == <<DayOf(t)>>

\* strftime('%Y-%m-%d %H:%M:%S'): the calendar date and the time of day
FormatDateTime(t) == <<DayOf(t), MinuteOfDay(t)>>

-----------------------------------------------------------------------------
(* The upload and _prep_dataframe *)

\* c.strip().lower() on the column names an upload of the model can carry
StripLower(c) ==
    CASE c = " Datum " -> "datum"
      [] c = "DATUM"   -> "datum"
      [] OTHER         -> c

RECURSIVE InsertRow(_, _)
InsertRow(r, s) ==
    IF s = <<>> THEN <<r>>
    ELSE IF r.ts < Head(s).ts THEN <<r>> \o s
    ELSE <<Head(s)>> \o InsertRow(r, Tail(s))

\* df.sort_values(DATE_COL).reset_index(drop=True)
RECURSIVE SortRows(_)
SortRows(rows) ==
    IF rows = <<>> THEN <<>>
    ELSE InsertRow(rows[Len(rows)], SortRows(SubSeq(rows, 1, Len(rows) - 1)))

\* the rows without any missing value
RECURSIVE KeepCompleteRows(_)
KeepCompleteRows(rows) ==
    IF rows = <<>> THEN <<>>
    ELSE IF Head(rows).na # {}
         THEN KeepCompleteRows(Tail(rows))
         ELSE <<Head(rows)>> \o KeepCompleteRows(Tail(rows))

RECURSIVE KeepRows(_)
\* df.loc[~prods.isna().all(axis=1)]
KeepRows(rows) ==
    IF rows = <<>> THEN <<>>
    ELSE IF Head(rows).na = Channels
         THEN KeepRows(Tail(rows))
         ELSE <<Head(rows)>> \o KeepRows(Tail(rows))

\* df[PRODUCT_COLS].fillna(0.0): a missing cell becomes 0, an infinite one
\* stays as it is
FillRow(r) ==
    [ts  |-> r.ts,
     v   |-> [c \in Channels |-> IF c \in r.na THEN 0 ELSE r.v[c]],
     na  |-> {},
     inf |-> r.inf]

MissingCols(cols) ==
    SelectSeq(PRODUCT_COLS, LAMBDA c : c \notin cols)

\* df.sort_values(DATE_COL) sorts with kind='quicksort', which is not stable:
\* every order of the rows with ascending time stamps is a possible outcome
SortOutcomes(rows) ==
    { [i \in 1..Len(rows) |-> rows[p[i]]] :
        p \in { q \in [1..Len(rows) -> 1..Len(rows)] :
                  /\ \A i, j \in 1..Len(rows) : i # j => q[i] # q[j]
                  /\ \A i \in 1..(Len(rows) - 1) :
                        rows[q[i]].ts <= rows[q[i + 1]].ts } }

\* _prep_dataframe when sort_values returns `sorted`: the cleaned frame, or
\* the ValueError it raises
PrepSorted(frame, sorted) ==
    LET candidates == {c \in frame.cols : StripLower(c) = DATE_COL}
        missing    == MissingCols(frame.cols)
        kept       == KeepRows(sorted)
    IN  IF DATE_COL \notin frame.cols /\ candidates = {}
        THEN [ok |-> FALSE, error |-> "CSV must contain a date column",
              missing |-> <<DATE_COL>>, rows |-> <<>>]
        ELSE IF missing # <<>>
        THEN [ok |-> FALSE, error |-> "CSV is missing required product columns",
              missing |-> missing, rows |-> <<>>]
        ELSE [ok |-> TRUE, error |-> "", missing |-> <<>>,
              rows |-> [i \in 1..Len(kept) |-> FillRow(kept[i])]]

\* _prep_dataframe on a frame whose time stamps are distinct, where the sort
\* has one outcome
PrepDataframe(frame) == PrepSorted(frame, SortRows(frame.rows))

Stamps(rows) == [i \in 1..Len(rows) |-> rows[i].ts]

\* df[col].tolist()
Column(rows, c) == [i \in 1..Len(rows) |-> rows[i].v[c]]

-----------------------------------------------------------------------------
(* pandas.infer_freq on a sorted column of time stamps *)

Deltas(ts) == [i \in 1..(Len(ts) - 1) |-> ts[i + 1] - ts[i]]

\* unique_deltas
UniqueDeltas(ts) == Range(Deltas(ts))

\* the calendar fields of every time stamp
Fields(ts) == [i \in 1..Len(ts) |-> Civil(DayOf(ts[i]))]

\* month_position_check: "ce", "be", "cs", "bs" or "none"
MonthPositionCheck(ts, civ) ==
    IF \A i \in 1..Len(ts) : civ[i].d = DaysInMonth(civ[i].y, civ[i].m)
    THEN "ce"
    ELSE IF \A i \in 1..Len(ts) :
               \/ civ[i].d = DaysInMonth(civ[i].y, civ[i].m)
               \/ /\ DaysInMonth(civ[i].y, civ[i].m) - civ[i].d < 3
                  /\ Weekday(DayOf(ts[i])) = 4
    THEN "be"
    ELSE IF \A i \in 1..Len(ts) : civ[i].d = 1
    THEN "cs"
    ELSE IF \A i \in 1..Len(ts) :
               civ[i].d = 1 \/ (civ[i].d <= 3 /\ Weekday(DayOf(ts[i])) = 0)
    THEN "bs"
    ELSE "none"

Alias(base, count) == [tag |-> "alias", base |-> base, count |-> count]

NoFreq == [tag |-> "none", base |-> "", count |-> 0]

FreqRaise == [tag |-> "raise", base |-> "", count |-> 0]

\* the weekday reached after the first i shifts
ShiftedWeekday(first, shifts, i) == (first + SumSeq(SubSeq(shifts, 1, i))) % 7

BusinessShifts(first, shifts) ==
    \A i \in 1..Len(shifts) :
       \/ ShiftedWeekday(first, shifts, i) = 0 /\ shifts[i] = 3
       \/ /\ ShiftedWeekday(first, shifts, i) > 0
          /\ ShiftedWeekday(first, shifts, i) <= 4
          /\ shifts[i] = 1

\* _FrequencyInferer._is_business_daily
IsBusinessDaily(ts, deltas) ==
    /\ deltas = {24 * 60, 3 * 24 * 60}
    /\ BusinessShifts(Weekday(DayOf(ts[1])),
                      [i \in 1..(Len(ts) - 1) |-> (ts[i + 1] - ts[i]) \div (24 * 60)])

\* _FrequencyInferer._get_wom_rule
WomRule(ts, civ) ==
    IF /\ Cardinality({Weekday(DayOf(ts[i])) : i \in 1..Len(ts)}) = 1
       /\ Cardinality({(civ[i].d - 1) \div 7 : i \in 1..Len(ts)} \cap 0..3) = 1
    THEN Alias("WOM", 1) ELSE NoFreq

\* the alias of the annual, quarterly or monthly rule at a month position
PositionAlias(pos, cs, bs, ce, be, count) ==
    Alias(CASE pos = "cs" -> cs [] pos = "bs" -> bs
            [] pos = "ce" -> ce [] pos = "be" -> be, count)

\* _FrequencyInferer._infer_daily_rule, given the month position, the unique
\* differences of the years and of the month numbers, and the unique deltas
DailyRule(ts, civ, pos, ydiffs, mdiffs, deltas) ==
    IF /\ Cardinality(ydiffs) = 1
       /\ Cardinality({civ[i].m : i \in 1..Len(ts)}) = 1
       /\ pos # "none"
    THEN PositionAlias(pos, "YS", "BYS", "YE", "BYE", Min(ydiffs))
    ELSE IF Cardinality(mdiffs) = 1 /\ Min(mdiffs) % 3 = 0 /\ pos # "none"
    THEN PositionAlias(pos, "QS", "BQS", "QE", "BQE", Min(mdiffs) \div 3)
    ELSE IF Cardinality(mdiffs) = 1 /\ pos # "none"
    THEN PositionAlias(pos, "MS", "BMS", "ME", "BME", Min(mdiffs))
    ELSE IF Cardinality(deltas) = 1
    THEN (IF (Min(deltas) \div (24 * 60)) % 7 = 0
          THEN Alias("W", Min(deltas) \div (7 * 24 * 60))
          ELSE Alias("D", Min(deltas) \div (24 * 60)))
    ELSE IF IsBusinessDaily(ts, deltas) THEN Alias("B", 1)
    ELSE WomRule(ts, civ)

InferDailyRule(ts, civ, deltas) ==
    DailyRule(ts, civ, MonthPositionCheck(ts, civ),
              UniqueDeltas([i \in 1..Len(ts) |-> civ[i].y]),
              UniqueDeltas([i \in 1..Len(ts) |-> civ[i].y * 12 + civ[i].m]),
              deltas)

\* _FrequencyInferer.get_freq on unique, increasing time stamps of minute
\* resolution with the unique deltas given
GetFreq(ts, deltas) ==
    IF 0 \in deltas THEN NoFreq
    ELSE IF Min(deltas) % (24 * 60) = 0 THEN InferDailyRule(ts, Fields(ts), deltas)
    ELSE IF deltas \in {{60, 17 * 60}, {60, 65 * 60}, {17 * 60, 65 * 60}}
    THEN Alias("bh", 1)
    ELSE IF Cardinality(deltas) # 1 THEN NoFreq
    ELSE IF Min(deltas) % 60 = 0 THEN Alias("h", Min(deltas) \div 60)
    ELSE Alias("min", Min(deltas))

\* pd.infer_freq(df[DATE_COL]): fewer than 3 dates raise ValueError
InferFreq(ts) == IF Len(ts) < 3 THEN FreqRaise ELSE GetFreq(ts, UniqueDeltas(ts))

\* the first letter of the lower-cased alias; a count other than 1 is
\* written in front of the base, so that the string starts with a digit
FirstLower(a) ==
    IF a.count # 1 THEN "0"
    ELSE CASE a.base = "h"                      -> "h"
           [] a.base = "D"                      -> "d"
           [] a.base \in {"W", "WOM"}           -> "w"
           [] a.base \in {"min", "ME", "MS"}    -> "m"
           [] a.base \in {"YE", "YS"}           -> "y"
           [] a.base \in {"QE", "QS"}           -> "q"
           [] OTHER                             -> "b"

-----------------------------------------------------------------------------
(* _detect_frequency *)

\* 2 * median of the sorted gaps s (the median of an even number of gaps is
\* the mean of the two in the middle)
TwiceMiddle(s) ==
    IF Len(s) % 2 = 1 THEN 2 * s[(Len(s) + 1) \div 2]
    ELSE s[Len(s) \div 2] + s[Len(s) \div 2 + 1]

\* 2 * deltas.dt.total_seconds().median() / 60
TwiceMedian(ts) == TwiceMiddle(SortInts(Deltas(ts)))

\* a daily threshold of 24 hours instead of 25
ManualFreqDay24(g2) ==
    IF g2 <= 2 * 90 THEN "H"
    ELSE IF g2 <= 2 * 24 * 60 THEN "D"
    ELSE IF g2 <= 2 * 200 * 60 THEN "W"
    ELSE "M"

\* the manual rule on the median gap g, given as g2 = 2*g in minutes
ManualFreq(g2) ==
    IF g2 <= 2 * 90 THEN "H"
    ELSE IF g2 <= 2 * 25 * 60 THEN "D"
    ELSE IF g2 <= 2 * 200 * 60 THEN "W"
    ELSE "M"

\* lines 128-158: the library's answer first, then the manual rule
Classify(inferred, ts) ==
    IF inferred.tag = "alias" /\ FirstLower(inferred) = "h" THEN "H"
    ELSE IF inferred.tag = "alias" /\ FirstLower(inferred) = "d" THEN "D"
    ELSE IF inferred.tag = "alias" /\ FirstLower(inferred) = "w" THEN "W"
    ELSE IF inferred.tag = "alias" /\ FirstLower(inferred) = "m" THEN "M"
    ELSE ManualFreq(TwiceMedian(ts))

\* _detect_frequency: "H", "D", "W", "M", or "raise" when infer_freq raises
DetectFrequency(ts) ==
    IF InferFreq(ts).tag = "raise" THEN "raise" ELSE Classify(InferFreq(ts), ts)

-----------------------------------------------------------------------------
(* The uploads, requests and predictor behaviours the model draws from *)

\* "1/2/2014 8:00", the first row of the example in predict_json's docstring
Start0 == (DaysFromCivil(2014, 1, 2) * 24 + 8) * 60

\* gaps between successive rows, in minutes: odd gaps g1, even gaps g2
GapPairs ==
    { <<60, 60>>, <<24 * 60, 24 * 60>>, <<7 * 24 * 60, 7 * 24 * 60>>,
      <<35 * 24 * 60, 35 * 24 * 60>>, <<1, 1>>, <<60, 120>>,
      <<24 * 60, 48 * 60>> }

Patterns ==
    { [kind |-> "alt", g1 |-> g[1], g2 |-> g[2]] : g \in GapPairs }
    \cup { [kind |-> "monthend", g1 |-> 0, g2 |-> 0] }

\* the time stamp of row i: rows a fixed pair of gaps apart, or the month
\* ends from 2014-01-31 on (sampledata.py)
StampAt(pat, i) ==
    IF pat.kind = "monthend"
    THEN MonthEndDay(2014, 1, i - 1) * 24 * 60
    ELSE Start0 + (i \div 2) * pat.g1 + ((i - 1) \div 2) * pat.g2

Profiles == {"ramp", "neg", "zero"}

ValueAt(prof, i, c) ==
    CASE prof = "ramp" -> i + ChanIdx(c) - 1
      [] prof = "neg"  -> 0 - (i + ChanIdx(c) - 1)
      [] prof = "zero" -> 0

RowCounts ==
    (1..MaxShortRows) \cup ((TREND_WINDOW - 1)..(TREND_WINDOW + MaxExtraRows))

ColumnSets ==
    { {DATE_COL} \cup Channels,
      Channels,
      {DATE_COL} \cup (Channels \ {"N05B", "R06"}) }

Upload(n, pat, prof, cols) ==
    [cols |-> cols,
     rows |-> [i \in 1..n |->
                 [ts |-> StampAt(pat, i),
                  v  |-> [c \in Channels |-> ValueAt(prof, i, c)],
                  na |-> {}, inf |-> {}]]]

\* request.form.get("category"): absent, a channel, an unknown name
Categories == {"", "N02BA", "total"}

Days == 1..MaxDays

\* what the sequence model answers, in original units, the same for every
\* channel: below zero, inside the historical range, far above it
PredVals == {0 - 3, 2, 60}

\* the additive model's yhat, in quarters of hist_max
YhatQuarters == {0 - 1, 7, 9}

\* the last date of the additive model's training history (history_dates.max()):
\* a date before the uploads of the model, 2013-12-31, and one after them
ProphetHistoryEnds ==
    { DaysFromCivil(2013, 12, 31) * 24 * 60, DaysFromCivil(2019, 10, 8) * 24 * 60 }

ProphetErrors ==
    {"FileNotFound", "NotADict", "NotAProphetModel", "NoModelForCategory", "PredictRaised"}

-----------------------------------------------------------------------------
(* The scaler: an affine map fit at training time, and its inverse *)

ScalerTransform(x) == 2 * x + 1

ScalerInverse(y) == (y - 1) \div 2

\* scaler.transform(df[PRODUCT_COLS].values)
TransformRows(rows) ==
    [i \in 1..Len(rows) |-> [c \in Channels |-> ScalerTransform(rows[i].v[c])]]

-----------------------------------------------------------------------------
(* Responses *)

NoResp ==
    [status |-> 0, error |-> "", need |-> 0, got |-> 0, path |-> "",
     histDates |-> <<>>, histValues |-> <<>>, fcDates |-> <<>>, fcValues |-> <<>>,
     granularity |-> "", frequency |-> "", category |-> "", fallback |-> FALSE]

ErrorResp(status, error, need, got) ==
    [NoResp EXCEPT !.status = status, !.error = error, !.need = need, !.got = got]

Forecast(path, hd, hv, fd, fv, gran, f, cat, fb) ==
    [status |-> 200, error |-> "", need |-> 0, got |-> 0, path |-> path,
     histDates |-> hd, histValues |-> hv, fcDates |-> fd, fcValues |-> fv,
     granularity |-> gran, frequency |-> f, category |-> cat, fallback |-> fb]

-----------------------------------------------------------------------------
(* predict_csv, the sequence-model path *)

\* horizon = days
Horizon(days) == days

\* category = PRODUCT_COLS[0] unless the form names a channel
PickCategory(cat) == IF cat = "" \/ cat \notin Channels THEN PRODUCT_COLS[1] ELSE cat

\* the maximum itself, also when it is not positive
HistMaxAsIs(hist) == IF hist # <<>> THEN Max(Range(hist)) ELSE 1

\* hist_max = max(hist_values) if hist_values and max(hist_values) > 0 else 1.0
HistMax(hist) ==
    IF hist # <<>> /\ Max(Range(hist)) > 0 THEN Max(Range(hist)) ELSE 1

\* n^2 * np.std(hist_values)^2 = n * sum(x^2) - sum(x)^2
VarN2(hist) ==
    Len(hist) * SumSeq([i \in 1..Len(hist) |-> hist[i] * hist[i]])
    - SumSeq(hist) * SumSeq(hist)

\* clip_max = hist_max + 2 * hist_std
ClipMax(hist) ==
    [num |-> Len(hist) * HistMax(hist), rad |-> VarN2(hist), den |-> Len(hist)]

\* min(max(v, 0.0), clip_max)
Clip(v, clipMax) ==
    LET m == IF v > 0 THEN v ELSE 0
        d == m * clipMax.den - clipMax.num
    IN  IF d <= 0 \/ d * d <= 4 * clipMax.rad THEN Q(m, 1) ELSE clipMax

\* pd.date_range(start=start_ts, periods=horizon+1, freq="H")[1:]
HourlyDates(start, h) == [k \in 1..h |-> start + k * 60]

LastStamp(rows) == Max(Range(Stamps(rows)))

\* lines 264-302: the response of the sequence-model path
LstmResponse(rows, cat, f, predsScaled, h) ==
    LET original == [k \in 1..Len(predsScaled) |->
                       [c \in Channels |-> ScalerInverse(predsScaled[k][c])]]
        catPreds == [k \in 1..Len(original) |-> original[k][cat]]
        future   == HourlyDates(LastStamp(rows), h)
        hist     == Column(rows, cat)
        clipMax  == ClipMax(hist)
    IN  Forecast("lstm",
                 [i \in 1..Len(rows) |-> FormatDateTime(rows[i].ts)],
                 hist,
                 [k \in 1..Len(future) |-> FormatDateTime(future[k])],
                 [k \in 1..Len(catPreds) |-> Clip(catPreds[k], clipMax)],
                 "hours", f, cat, FALSE)

-----------------------------------------------------------------------------
(* predict_csv, the additive path and the trend fallback *)

\* Prophet.make_future_dataframe(periods, freq), the rows after the history:
\* pd.date_range(start=last, periods=periods+1, freq) without the dates that
\* are not after `last`, cut to `periods` dates.  "W" is anchored on Sunday,
\* "ME" on the month end.
FutureDates(last, periods, f) ==
    LET day    == 24 * 60
        c      == Civil(DayOf(last))
        sunday == last + ((6 - Weekday(DayOf(last))) % 7) * day
        onEnd  == c.d = DaysInMonth(c.y, c.m)
    IN  [k \in 1..periods |->
           CASE f = "D" -> last + k * day
             [] f = "W" -> sunday + 7 * day * (IF sunday = last THEN k ELSE k - 1)
             [] f = "M" -> MonthEndDay(c.y, c.m, IF onEnd THEN k ELSE k - 1) * day
                           + MinuteOfDay(last)]

\* lines 334-343: the bounding of one additive forecast value
ProphetBound(val, histMax) ==
    IF val.num < 0 THEN Q(0, 1)
    ELSE IF val.num > 2 * histMax * val.den THEN Q(3 * histMax, 2)
    ELSE val

Granularity(f) ==
    CASE f = "D" -> "days" [] f = "W" -> "weeks" [] f = "M" -> "months" [] OTHER -> "days"

\* lines 311-366: the response of the additive path; the model's history ends
\* at `last` and its yhat for the k-th future date is yq[k]/4 * hist_max
ProphetResponse(rows, cat, f, last, yq, days) ==
    LET hist     == Column(rows, cat)
        future   == FutureDates(last, days, f)
        histMax  == HistMax(hist)
        \* forecast.tail(days)
        values   == [k \in 1..days |-> Q(yq[k] * histMax, 4)]
    IN  Forecast("prophet",
                 [i \in 1..Len(rows) |-> FormatDate(rows[i].ts)],
                 hist,
                 [k \in 1..days |-> FormatDate(future[k])],
                 [k \in 1..days |-> ProphetBound(values[k], histMax)],
                 Granularity(f), f, cat, FALSE)

\* the mean of all values, whatever their number
TrendValueOfAll(hist) == Q(9 * SumSeq(hist), 10 * Len(hist))

\* recent_avg * 0.9, recent_avg the mean of hist_values[-30:] or of them all
TrendValue(hist) ==
    LET recent == IF Len(hist) >= TREND_WINDOW THEN LastK(hist, TREND_WINDOW) ELSE hist
    IN  Q(9 * SumSeq(recent), 10 * Len(recent))

\* the range without its [1:]
FallbackDatesUnsliced(start, days) == [k \in 1..(days + 1) |-> start + (k - 1) * 24 * 60]

\* pd.date_range(start=df[DATE_COL].max(), periods=days+1, freq="D")[1:]
FallbackDates(start, days) == [k \in 1..days |-> start + k * 24 * 60]

\* lines 368-395: the trend fallback
FallbackResponse(rows, cat, f, days) ==
    LET hist   == Column(rows, cat)
        future == FallbackDates(LastStamp(rows), days)
    IN  Forecast("fallback",
                 [i \in 1..Len(rows) |-> FormatDate(rows[i].ts)],
                 hist,
                 [k \in 1..Len(future) |-> FormatDate(future[k])],
                 [k \in 1..days |-> TrendValue(hist)],
                 "days", f, cat, TRUE)

-----------------------------------------------------------------------------
(* PharmaSalesPredictor and its model file *)

\* __init__: self.is_trained = False, self.feature_cols = []
NewPredictor == [is_trained |-> FALSE, feature_cols |-> <<>>]

\* no file at the path given to save_model and load_model
NoFile == [exists |-> FALSE]

-----------------------------------------------------------------------------
(* The request handler *)

NoReq == [frame |-> [cols |-> {}, rows |-> <<>>], days |-> 0, category |-> ""]

Init ==
    /\ pc = "idle"
    /\ req = NoReq
    /\ df = <<>>
    /\ freq = ""
    /\ category = ""
    /\ horizon = 0
    /\ prophetError = ""
    /\ seq = <<>>
    /\ preds = <<>>
    /\ calls = 0
    /\ transforms = 0
    /\ loads = 0
    /\ predictor = NewPredictor
    /\ disk = NoFile
    /\ resp = NoResp

\* the check off by one: a frame one row short passes
TooShortOffByOne(n) == n < SEQ_LEN - 1

\* if len(df) < SEQ_LEN
TooShort(n) == n < SEQ_LEN

\* one turn too many
LoopContinuesOneMore(done, h) == done <= h

\* for _ in range(horizon), after `done` turns
LoopContinues(done, h) == done < h

\* lines 241-260 and 304-308: the dispatch on the detected frequency, up to
\* the first predictor call
Dispatch(rows, f, days) ==
    IF f = "H"
    THEN /\ horizon' = Horizon(days)
         /\ IF TooShort(Len(rows))
            THEN /\ resp' = ErrorResp(400, "Not enough history", SEQ_LEN, Len(rows))
                 /\ pc' = "done"
                 /\ UNCHANGED <<seq, transforms>>
            ELSE /\ transforms' = transforms + 1
                 /\ seq' = LastK(TransformRows(rows), SEQ_LEN)
                 /\ pc' = "forecast"
                 /\ resp' = NoResp
    ELSE /\ pc' = "prophet"
         /\ resp' = NoResp
         /\ UNCHANGED <<horizon, seq, transforms>>

\* lines 228-239: cleaning, frequency detection, the default category
Cleaned(prep, days, cat) ==
    IF ~prep.ok
    THEN /\ resp' = ErrorResp(500, prep.error, 0, 0)
         /\ pc' = "done"
         /\ UNCHANGED <<df, freq, category, horizon, seq, transforms>>
    ELSE /\ df' = prep.rows
         /\ IF DetectFrequency(Stamps(prep.rows)) = "raise"
            THEN /\ resp' = ErrorResp(500, "Need at least 3 dates to infer frequency", 0, 0)
                 /\ pc' = "done"
                 /\ UNCHANGED <<freq, category, horizon, seq, transforms>>
            ELSE /\ freq' = DetectFrequency(Stamps(prep.rows))
                 /\ category' = PickCategory(cat)
                 /\ Dispatch(prep.rows, DetectFrequency(Stamps(prep.rows)), days)

\* the body of predict_csv, from the uploaded frame to the first predictor
\* call, for the form fields days and category
PredictCsv(frame, days, cat) ==
    /\ calls' = 0
    /\ preds' = <<>>
    /\ prophetError' = ""
    /\ loads' = 0
    /\ UNCHANGED <<predictor, disk>>
    /\ Cleaned(PrepDataframe(frame), days, cat)

\* predict_csv from the upload to the first predictor call
Request(n, pat, prof, cols, days, cat) ==
    /\ pc = "idle"
    /\ req' = [frame |-> Upload(n, pat, prof, cols), days |-> days, category |-> cat]
    /\ PredictCsv(Upload(n, pat, prof, cols), days, cat)

\* the window that drops its newest row instead of its oldest
SlideDroppingNewest(window, yhat) == Append(SubSeq(window, 1, Len(window) - 1), yhat)

\* seq = np.vstack([seq[1:], yhat])
Slide(window, yhat) == Append(Tail(window), yhat)

\* one turn of the loop of _multi_step_forecast: the model answers p for
\* every channel
ForecastStep(p) ==
    /\ pc = "forecast"
    /\ LoopContinues(Len(preds), horizon)
    /\ preds' = Append(preds, [c \in Channels |-> ScalerTransform(p)])
    /\ seq' = Slide(seq, [c \in Channels |-> ScalerTransform(p)])
    /\ calls' = calls + 1
    /\ UNCHANGED <<pc, req, df, freq, category, horizon, prophetError, transforms, loads, predictor, disk, resp>>

\* the predictor's failure answered with the trend fallback
ForecastRaiseMasked ==
    /\ pc = "forecast"
    /\ LoopContinues(Len(preds), horizon)
    /\ calls' = calls + 1
    /\ resp' = FallbackResponse(df, category, freq, req.days)
    /\ pc' = "done"
    /\ UNCHANGED <<req, df, freq, category, horizon, prophetError, seq, preds, transforms, loads, predictor, disk>>

\* model.predict raises: the handler's outer except answers
ForecastRaise ==
    /\ pc = "forecast"
    /\ LoopContinues(Len(preds), horizon)
    /\ calls' = calls + 1
    /\ resp' = ErrorResp(500, "Prediction failed", 0, 0)
    /\ pc' = "done"
    /\ UNCHANGED <<req, df, freq, category, horizon, prophetError, seq, preds, transforms, loads, predictor, disk>>

\* the loop has ended and scaler.inverse_transform raises: the handler's
\* outer except answers
InverseTransformRaise ==
    /\ pc = "forecast"
    /\ ~LoopContinues(Len(preds), horizon)
    /\ resp' = ErrorResp(500, "Prediction failed", 0, 0)
    /\ pc' = "done"
    /\ UNCHANGED <<req, df, freq, category, horizon, prophetError, seq, preds, calls,
                   transforms, loads, predictor, disk>>

\* the loop has ended: inverse_transform, clipping, dates, response
ForecastReturn ==
    /\ pc = "forecast"
    /\ ~LoopContinues(Len(preds), horizon)
    /\ resp' = LstmResponse(df, category, freq, preds, horizon)
    /\ pc' = "done"
    /\ UNCHANGED <<req, df, freq, category, horizon, prophetError, seq, preds, calls,
                   transforms, loads, predictor, disk>>

\* _load_prophet_models_dict: the bundle's file is read by joblib.load unless
\* it does not exist
BundleLoads(e) == IF e = "FileNotFound" THEN 0 ELSE 1

\* the additive model is found and answers: its history ends at `last`
ProphetForecast(last) ==
    /\ pc = "prophet"
    /\ loads' = loads + BundleLoads("")
    /\ UNCHANGED <<predictor, disk>>
    /\ \E yq \in [1..req.days -> YhatQuarters] :
          resp' = ProphetResponse(df, category, freq, last, yq, req.days)
    /\ pc' = "done"
    /\ UNCHANGED <<req, df, freq, category, horizon, prophetError, seq, preds, calls,
                   transforms>>

\* _get_prophet_model, make_future_dataframe or predict raises e: the trend
\* fallback answers
ProphetFails(e) ==
    /\ pc = "prophet"
    /\ loads' = loads + BundleLoads(e)
    /\ UNCHANGED <<predictor, disk>>
    /\ prophetError' = e
    /\ resp' = FallbackResponse(df, category, freq, req.days)
    /\ pc' = "done"
    /\ UNCHANGED <<req, df, freq, category, horizon, seq, preds, calls, transforms>>

\* the response is sent; the next request finds the handler as it started
Respond ==
    /\ pc = "done"
    /\ pc' = "idle"
    /\ req' = NoReq
    /\ df' = <<>>
    /\ freq' = ""
    /\ category' = ""
    /\ horizon' = 0
    /\ prophetError' = ""
    /\ seq' = <<>>
    /\ preds' = <<>>
    /\ calls' = 0
    /\ transforms' = 0
    /\ loads' = 0
    /\ UNCHANGED <<predictor, disk>>
    /\ resp' = NoResp

Next ==
    \/ \E n \in RowCounts, pat \in Patterns, prof \in Profiles, cols \in ColumnSets,
          days \in Days, cat \in Categories : Request(n, pat, prof, cols, days, cat)
    \/ \E p \in PredVals : ForecastStep(p)
    \/ ForecastRaise
    \/ InverseTransformRaise
    \/ ForecastReturn
    \/ \E last \in ProphetHistoryEnds : ProphetForecast(last)
    \/ \E e \in ProphetErrors : ProphetFails(e)
    \/ Respond

Spec == Init /\ [][Next]_vars

-----------------------------------------------------------------------------
(* The manual frequency rule on its own: lines 142-158 of _detect_frequency *)
(* applied to series of every combination of a few gaps                     *)

MaxGaps == 3

\* gaps in minutes, around the thresholds of the rule
GapChoices ==
    { 60, 90, 91, 24 * 60, 25 * 60, 25 * 60 + 1, 7 * 24 * 60, 200 * 60,
      200 * 60 + 1, 35 * 24 * 60 }

GapSeqs == UNION { [1..k -> GapChoices] : k \in 1..MaxGaps }

\* the frame whose rows are the gaps g apart, from Start0 on
GapFrame(g) ==
    [i \in 1..(Len(g) + 1) |->
       [ts |-> Start0 + SumSeq(SubSeq(g, 1, i - 1)),
        v  |-> [c \in Channels |-> 0],
        na |-> {}, inf |-> {}]]

InitFreq ==
    /\ pc = "series"
    /\ df \in { GapFrame(g) : g \in GapSeqs }
    /\ req = NoReq
    /\ freq = ""
    /\ category = ""
    /\ horizon = 0
    /\ prophetError = ""
    /\ seq = <<>>
    /\ preds = <<>>
    /\ calls = 0
    /\ transforms = 0
    /\ loads = 0
    /\ predictor = NewPredictor
    /\ disk = NoFile
    /\ resp = NoResp

\* lines 142-158
ManualRule ==
    /\ pc = "series"
    /\ freq' = ManualFreq(TwiceMedian(Stamps(df)))
    /\ pc' = "classified"
    /\ UNCHANGED <<req, df, category, horizon, prophetError, seq, preds, calls,
                   transforms, loads, predictor, disk, resp>>

NextFreq == ManualRule

SpecFreq == InitFreq /\ [][NextFreq]_vars

-----------------------------------------------------------------------------
(* _prep_dataframe on its own: applied to a raw frame, then to its own output *)

MaxPrepRows == 2

\* two moments a raw row can carry: rows can share one, or come out of order
PrepStamps == {Start0, Start0 + 24 * 60}

\* the cells of a raw row: all present, all missing, one missing, one infinite
\* (read_csv parses an empty cell as NaN and "inf" as the float infinity)
PrepCells ==
    { [v |-> [c \in Channels |-> 1], na |-> {}, inf |-> {}],
      [v |-> [c \in Channels |-> 2], na |-> {}, inf |-> {}],
      [v |-> [c \in Channels |-> 0], na |-> Channels, inf |-> {}],
      [v |-> [c \in Channels |-> IF c = "M01AB" THEN 0 ELSE 3],
       na |-> {"M01AB"}, inf |-> {}],
      [v |-> [c \in Channels |-> IF c = "R06" THEN 0 ELSE 4],
       na |-> {}, inf |-> {"R06"}] }

PrepRows ==
    { [ts |-> t, v |-> x.v, na |-> x.na, inf |-> x.inf] : t \in PrepStamps, x \in PrepCells }

\* the header of a raw frame: complete, with the date column written
\* differently, with a column too many, without date column, without two
\* channels, without either
PrepColumnSets ==
    { {DATE_COL} \cup Channels,
      {" Datum "} \cup Channels,
      {DATE_COL, "Year"} \cup Channels,
      Channels,
      {DATE_COL} \cup (Channels \ {"N05B", "R06"}),
      Channels \ {"N05B", "R06"} }

PrepFrames ==
    { [cols |-> cols, rows |-> rows] :
        cols \in PrepColumnSets,
        rows \in UNION { [1..k -> PrepRows] : k \in 0..MaxPrepRows } }

\* the frame _prep_dataframe returns: cols = [DATE_COL] + PRODUCT_COLS
CleanFrame(rows) == [cols |-> {DATE_COL} \cup Channels, rows |-> rows]

InitPrep ==
    /\ pc = "raw"
    /\ req \in { [frame |-> f, days |-> 0, category |-> ""] : f \in PrepFrames }
    /\ df = <<>>
    /\ freq = ""
    /\ category = ""
    /\ horizon = 0
    /\ prophetError = ""
    /\ seq = <<>>
    /\ preds = <<>>
    /\ calls = 0
    /\ transforms = 0
    /\ loads = 0
    /\ predictor = NewPredictor
    /\ disk = NoFile
    /\ resp = NoResp

\* the outcome of _prep_dataframe on req.frame: the cleaned frame in df, or
\* the message of the ValueError in resp
PrepOutcome(r, accepted) ==
    /\ IF r.ok
       THEN /\ df' = r.rows
            /\ pc' = accepted
            /\ resp' = NoResp
       ELSE /\ resp' = [NoResp EXCEPT !.error = r.error]
            /\ pc' = "rejected"
            /\ UNCHANGED df
    /\ UNCHANGED <<freq, category, horizon, prophetError, seq, preds, calls, transforms, loads, predictor, disk>>

\* _prep_dataframe(df) on the raw frame
PrepClean ==
    /\ pc = "raw"
    /\ \E sorted \in SortOutcomes(req.frame.rows) :
          PrepOutcome(PrepSorted(req.frame, sorted), "cleaned")
    /\ UNCHANGED req

\* _prep_dataframe on the frame it returned
PrepCleanAgain ==
    /\ pc = "cleaned"
    /\ req' = [req EXCEPT !.frame = CleanFrame(df)]
    /\ \E sorted \in SortOutcomes(df) :
          PrepOutcome(PrepSorted(CleanFrame(df), sorted), "recleaned")

NextPrep == PrepClean \/ PrepCleanAgain

SpecPrep == InitPrep /\ [][NextPrep]_vars

-----------------------------------------------------------------------------
(* DataProcessor.validate_data_format (utils/data_processor.py) *)

\* sample_size = min(5, len(data))
SAMPLE_SIZE == 5

MaxRecords == 6

\* self.required_columns
RequiredColumns == <<"date", "sales", "product", "region">>

\* numeric_fields
NumericFields == <<"sales", "volume", "price", "units", "revenue">>

\* the records the data can hold: a complete one, one that is no dictionary,
\* one without product and region whose date does not parse, one whose sales
\* and volume are no numbers
RecordKinds ==
    { [isDict |-> TRUE, keys |-> {"date", "sales", "product", "region"},
       dateParses |-> TRUE, notNumeric |-> {}],
      [isDict |-> FALSE, keys |-> {}, dateParses |-> TRUE, notNumeric |-> {}],
      [isDict |-> TRUE, keys |-> {"date", "sales"},
       dateParses |-> FALSE, notNumeric |-> {}],
      [isDict |-> TRUE, keys |-> {"date", "sales", "product", "region", "volume"},
       dateParses |-> TRUE, notNumeric |-> {"sales", "volume"}] }

\* the argument of validate_data_format: a list of records, or something that
\* is no list (None or an empty dict when it has no items)
DataInputs ==
    { [isList |-> TRUE, items |-> d] :
        d \in UNION { [1..k -> RecordKinds] : k \in 0..MaxRecords } }
    \cup { [isList |-> FALSE, items |-> d] :
             d \in UNION { [1..k -> RecordKinds] : k \in 0..1 } }

ValidationError(i, what, col) == [record |-> i, what |-> what, col |-> col]

\* the errors the loop body appends for record i (0-based) of the sample
RecordErrors(i, r) ==
    IF ~r.isDict THEN <<ValidationError(i, "not a dictionary", "")>>
    ELSE [k \in 1..Len(SelectSeq(RequiredColumns, LAMBDA c : c \notin r.keys)) |->
            ValidationError(i, "missing required column",
                            SelectSeq(RequiredColumns, LAMBDA c : c \notin r.keys)[k])]
         \o (IF "date" \in r.keys /\ ~r.dateParses
             THEN <<ValidationError(i, "invalid date format", "date")>> ELSE <<>>)
         \o [k \in 1..Len(SelectSeq(NumericFields,
                                    LAMBDA f : f \in r.keys /\ f \in r.notNumeric)) |->
               ValidationError(i, "non-numeric",
                               SelectSeq(NumericFields,
                                         LAMBDA f : f \in r.keys /\ f \in r.notNumeric)[k])]

\* for i, record in enumerate(data[:sample_size]), over the first n records
RECURSIVE SampleErrors(_, _)
SampleErrors(items, n) ==
    IF n = 0 THEN <<>>
    ELSE SampleErrors(items, n - 1) \o RecordErrors(n - 1, items[n])

\* validate_data_format(data): (is_valid, errors)
ValidateDataFormat(data) ==
    IF data.items = <<>>
    THEN [is_valid |-> FALSE, errors |-> <<ValidationError(0 - 1, "Data is empty", "")>>]
    ELSE IF ~data.isList
    THEN [is_valid |-> FALSE,
          errors |-> <<ValidationError(0 - 1, "Data must be a list of dictionaries", "")>>]
    ELSE [is_valid |-> SampleErrors(data.items, Min({SAMPLE_SIZE, Len(data.items)})) = <<>>,
          errors   |-> SampleErrors(data.items, Min({SAMPLE_SIZE, Len(data.items)}))]

\* a call of a function of DataProcessor: req holds the arguments, resp the
\* value returned
InitCall(op, args) ==
    /\ pc = "called"
    /\ req \in { [op |-> op, arg |-> a] : a \in args }
    /\ resp = [op |-> "", value |-> <<>>]
    /\ df = <<>>
    /\ freq = ""
    /\ category = ""
    /\ horizon = 0
    /\ prophetError = ""
    /\ seq = <<>>
    /\ preds = <<>>
    /\ calls = 0
    /\ transforms = 0
    /\ loads = 0
    /\ predictor = NewPredictor
    /\ disk = NoFile

Return(value) ==
    /\ pc = "called"
    /\ pc' = "returned"
    /\ resp' = [op |-> req.op, value |-> value]
    /\ UNCHANGED <<req, df, freq, category, horizon, prophetError, seq, preds, calls,
                   transforms, loads, predictor, disk>>

InitValidate == InitCall("validate_data_format", DataInputs)

Validate ==
    /\ req.op = "validate_data_format"
    /\ Return(ValidateDataFormat(req.arg))

NextValidate == Validate

SpecValidate == InitValidate /\ [][NextValidate]_vars

-----------------------------------------------------------------------------
(* DataProcessor.calculate_statistics *)

MaxStatRows == 3

\* the values of the column
StatValues == {0, 10, 20, 30}

\* the dates of the records, '%Y-%m-%d' strings as clean_data writes them,
\* which sort as the days they name
StatDates == 1..3

\* the data: records that all carry a date, records without date, and data
\* without the column asked for
StatInputs ==
    { [hasColumn |-> TRUE, hasDate |-> TRUE, rows |-> r] :
        r \in UNION { [1..k -> [date : StatDates, sales : StatValues]] :
                        k \in 0..MaxStatRows } }
    \cup { [hasColumn |-> TRUE, hasDate |-> FALSE, rows |-> r] :
             r \in UNION { [1..k -> [date : {0}, sales : StatValues]] :
                             k \in 1..MaxStatRows } }
    \cup { [hasColumn |-> FALSE, hasDate |-> TRUE,
            rows |-> <<[date |-> 1, sales |-> 10]>>] }

\* df.sort_values('date'): every order of the rows with ascending dates
\* (the default sort is not stable)
SortByDate(rows) ==
    { [i \in 1..Len(rows) |-> rows[p[i]]] :
        p \in { q \in [1..Len(rows) -> 1..Len(rows)] :
                  /\ \A i, j \in 1..Len(rows) : i # j => q[i] # q[j]
                  /\ \A i \in 1..(Len(rows) - 1) :
                        rows[q[i]].date <= rows[q[i + 1]].date } }

\* 4 * the value at position h/4 (0-based) of the sorted values s, linearly
\* interpolated between its neighbours
QuartileAt(s, h) ==
    IF h % 4 = 0
    THEN 4 * s[h \div 4 + 1]
    ELSE (4 - (h % 4)) * s[h \div 4 + 1] + (h % 4) * s[h \div 4 + 2]

\* 4 * np.percentile(values, 25 * q) of the sorted values s: linear
\* interpolation at position q * (n - 1) / 4
Quartile4(s, q) == QuartileAt(s, q * (Len(s) - 1))

\* growth without the factor 100
GrowthRateAsFraction(first, last) ==
    IF first # 0 THEN Q(last - first, first) ELSE Q(0, 1)

\* ((last_value - first_value) / first_value) * 100, or 0.0
GrowthRate(first, last) ==
    IF first # 0 THEN Q((last - first) * 100, first) ELSE Q(0, 1)

NoStats ==
    [empty |-> TRUE, count |-> 0, mean |-> Q(0, 1), median |-> Q(0, 1),
     varN2 |-> 0, min |-> 0, max |-> 0, q25 |-> Q(0, 1), q75 |-> Q(0, 1),
     hasGrowth |-> FALSE, growth_rate |-> Q(0, 1)]

\* the stats dictionary for the values in the order of the data, `sorted`
\* being the rows as sort_values returns them (skewness and kurtosis are
\* left out)
StatsOf(values, hasDate, sorted) ==
    [empty       |-> FALSE,
     count       |-> Len(values),
     mean        |-> Q(SumSeq(values), Len(values)),
     median      |-> Q(TwiceMiddle(SortInts(values)), 2),
     varN2       |-> VarN2(values),
     min         |-> Min(Range(values)),
     max         |-> Max(Range(values)),
     q25         |-> Q(Quartile4(SortInts(values), 1), 4),
     q75         |-> Q(Quartile4(SortInts(values), 3), 4),
     hasGrowth   |-> hasDate /\ Len(values) > 1,
     growth_rate |-> IF hasDate /\ Len(values) > 1
                     THEN GrowthRate(sorted[1].sales, sorted[Len(sorted)].sales)
                     ELSE Q(0, 1)]

\* calculate_statistics(data, 'sales')
CalculateStatistics(data, sorted) ==
    IF data.rows = <<>> \/ ~data.hasColumn
    THEN NoStats
    ELSE StatsOf([i \in 1..Len(data.rows) |-> data.rows[i].sales], data.hasDate, sorted)

InitStats == InitCall("calculate_statistics", StatInputs)

CalcStats ==
    /\ req.op = "calculate_statistics"
    /\ \E sorted \in SortByDate(req.arg.rows) :
          Return(CalculateStatistics(req.arg, sorted))

NextStats == CalcStats

SpecStats == InitStats /\ [][NextStats]_vars

-----------------------------------------------------------------------------
(* DataProcessor.detect_outliers *)
(* The values of the column are counted in units of 1e-8, so that the guard *)
(* 1e-8 of the z-score is the integer 1; the IQR rule does not depend on    *)
(* the unit.                                                                *)

MaxOutlierRows == 5

MaxZRows == 11

\* threshold = 3
Z_THRESHOLD == 3

\* the 1e-8 of (std_val + 1e-8), in units of 1e-8
Z_EPSILON == 1

IqrValues == {1, 2, 3, 4, 100}

\* columns for the z-score: all values equal but a few, which differ from
\* the others by 1e-8 (one unit) or by 1e-5
ZColumns ==
    UNION { [1..k -> {0, 1}] \cup [1..k -> {0, 1000}] : k \in {1, 2, MaxZRows} }

OutlierInputs ==
    { [hasColumn |-> TRUE, method |-> "iqr", values |-> v] :
        v \in UNION { [1..k -> IqrValues] : k \in 1..MaxOutlierRows } }
    \cup { [hasColumn |-> TRUE, method |-> "zscore", values |-> v] : v \in ZColumns }
    \cup { [hasColumn |-> TRUE, method |-> "mad", values |-> <<1, 2, 100>>],
           [hasColumn |-> FALSE, method |-> "iqr", values |-> <<>>] }

\* enumerate(values): the positions 0 .. n - 1
Positions(n) == [i \in 1..n |-> i - 1]

\* only the values above the upper bound
IsIqrOutlierAbove(v, q1x4, q3x4) ==
    8 * v > 2 * q3x4 + 3 * (q3x4 - q1x4)

\* val < Q1 - 1.5 * IQR or val > Q3 + 1.5 * IQR, the quartiles given 4-fold
IsIqrOutlier(v, q1x4, q3x4) ==
    \/ 8 * v < 2 * q1x4 - 3 * (q3x4 - q1x4)
    \/ 8 * v > 2 * q3x4 + 3 * (q3x4 - q1x4)

\* abs((v - mean_val) / (std_val + 1e-8)) > threshold, for a column of n
\* values with sum s and n^2 * variance d: |n*v - s| > 3*sqrt(d) + 3*n*1e-8
IsZOutlier(v, n, s, d) ==
    LET a == (IF n * v >= s THEN n * v - s ELSE s - n * v) - Z_THRESHOLD * n * Z_EPSILON
    IN  a > 0 /\ a * a > Z_THRESHOLD * Z_THRESHOLD * d

NoOutliers == [indices |-> <<>>, empty |-> TRUE, method |-> "", outlier_count |-> 0]

\* [i for i, val in enumerate(values) if val < lower_bound or val > upper_bound]
IqrIndices(values, q1x4, q3x4) ==
    SelectSeq(Positions(Len(values)), LAMBDA i : IsIqrOutlier(values[i + 1], q1x4, q3x4))

\* [i for i, z in enumerate(z_scores) if z > threshold]
ZIndices(values, s, d) ==
    SelectSeq(Positions(Len(values)), LAMBDA i : IsZOutlier(values[i + 1], Len(values), s, d))

\* the branch method == 'iqr'
IqrOutliers(values, q1x4, q3x4) ==
    [indices       |-> IqrIndices(values, q1x4, q3x4),
     empty         |-> FALSE,
     method        |-> "IQR",
     outlier_count |-> Len(IqrIndices(values, q1x4, q3x4))]

\* the branch method == 'zscore'
ZScoreOutliers(values, s, d) ==
    [indices       |-> ZIndices(values, s, d),
     empty         |-> FALSE,
     method        |-> "Z-Score",
     outlier_count |-> Len(ZIndices(values, s, d))]

\* detect_outliers(data, column, method): (outlier_indices, outlier_info)
DetectOutliers(arg) ==
    IF ~arg.hasColumn THEN NoOutliers
    ELSE IF arg.method = "iqr"
    THEN IqrOutliers(arg.values, Quartile4(SortInts(arg.values), 1),
                     Quartile4(SortInts(arg.values), 3))
    ELSE IF arg.method = "zscore"
    THEN ZScoreOutliers(arg.values, SumSeq(arg.values), VarN2(arg.values))
    ELSE NoOutliers

InitOutliers == InitCall("detect_outliers", OutlierInputs)

FindOutliers ==
    /\ req.op = "detect_outliers"
    /\ Return(DetectOutliers(req.arg))

NextOutliers == FindOutliers

SpecOutliers == InitOutliers /\ [][NextOutliers]_vars

-----------------------------------------------------------------------------
(* predict_json: the records of the payload become a DataFrame, the         *)
(* DataFrame a CSV text, and predict_csv reads the text as its upload       *)

MaxJsonRows == 4

MaxJsonDays == 2

\* request.form.get("days", 7)
DEFAULT_DAYS == 7

\* JSON values: a number, a string that writes the time stamp n, null
JNum(n) == [t |-> "num", n |-> n]

JStr(n) == [t |-> "str", n |-> n]

JNull == [t |-> "null", n |-> 0]

NaN == [t |-> "nan", n |-> 0]

HoleChannel == "N02BA"

\* what the first record lacks: nothing, the value of a channel (null), the
\* key of a channel, the values of all channels
Holes == {"none", "null", "absent", "row"}

JsonPatterns == { p \in Patterns : p.kind = "monthend" \/ (p.g1 = p.g2 /\ p.g1 \in {60, 24 * 60}) }

JsonValue(hole, pat, i, k) ==
    IF k = DATE_COL THEN JStr(StampAt(pat, i))
    ELSE IF i = 1 /\ (hole = "row" \/ (hole = "null" /\ k = HoleChannel)) THEN JNull
    ELSE JNum(ValueAt("ramp", i, k))

\* the records of a payload: one JSON object per row
JsonRecords(n, pat, hole, keys) ==
    [i \in 1..n |->
        [k \in (IF i = 1 /\ hole = "absent" THEN keys \ {HoleChannel} ELSE keys) |->
            JsonValue(hole, pat, i, k)]]

\* payload["category"]: absent, null, a channel
JsonCategories ==
    { [has |-> FALSE, null |-> FALSE, s |-> ""],
      [has |-> TRUE, null |-> TRUE, s |-> ""],
      [has |-> TRUE, null |-> FALSE, s |-> "N02BA"] }

\* payload["days"]: absent or a number
JsonDays == { [has |-> FALSE, n |-> 0] } \cup { [has |-> TRUE, n |-> d] : d \in 1..MaxJsonDays }

Payloads ==
    { [isJson |-> TRUE, records |-> JsonRecords(n, pat, hole, keys), days |-> d, category |-> c] :
        n \in 1..MaxJsonRows, pat \in JsonPatterns, hole \in Holes, keys \in ColumnSets,
        d \in { x \in JsonDays : x.has }, c \in JsonCategories }
    \cup { [isJson |-> TRUE, records |-> JsonRecords(n, pat, "none", {DATE_COL} \cup Channels),
            days |-> [has |-> FALSE, n |-> 0], category |-> c] :
             n \in 1..MaxJsonRows, pat \in JsonPatterns, c \in JsonCategories }
    \cup { [isJson |-> j, records |-> <<>>, days |-> [has |-> TRUE, n |-> 1],
            category |-> [has |-> FALSE, null |-> FALSE, s |-> ""]] : j \in BOOLEAN }

\* null is taken for the number 0
DataFrameCellNullAsZero(r, k) ==
    IF k \notin DOMAIN r THEN NaN
    ELSE IF r[k].t = "null" THEN JNum(0)
    ELSE r[k]

\* pd.DataFrame(records): a key a record lacks, and null, are NaN
DataFrameCell(r, k) ==
    IF k \notin DOMAIN r \/ r[k].t = "null" THEN NaN ELSE r[k]

\* pd.DataFrame(records): the columns are the keys of all records
DataFrame(records) ==
    [cols  |-> UNION { DOMAIN records[i] : i \in 1..Len(records) },
     cells |-> [i \in 1..Len(records) |->
                  [k \in UNION { DOMAIN records[j] : j \in 1..Len(records) } |->
                      DataFrameCell(records[i], k)]]]

\* the text to_csv writes for a cell: nothing for NaN
CsvCell(x) ==
    IF x.t = "nan" THEN [t |-> "empty", n |-> 0]
    ELSE IF x.t = "num" THEN [t |-> "digits", n |-> x.n]
    ELSE [t |-> "text", n |-> x.n]

\* df.to_csv(csv_buf, index=False)
ToCsv(d) ==
    [header |-> d.cols,
     lines  |-> [i \in 1..Len(d.cells) |-> [k \in d.cols |-> CsvCell(d.cells[i][k])]]]

\* pd.read_csv: an empty cell is a missing value
ReadCsv(csv) ==
    [cols |-> csv.header,
     rows |-> [i \in 1..Len(csv.lines) |->
                 [ts  |-> IF DATE_COL \in csv.header THEN csv.lines[i][DATE_COL].n ELSE 0,
                  v   |-> [c \in Channels |->
                             IF c \in csv.header /\ csv.lines[i][c].t = "digits"
                             THEN csv.lines[i][c].n ELSE 0],
                  na  |-> { c \in Channels \cap csv.header : csv.lines[i][c].t = "empty" },
                  inf |-> {}]]]

\* str(n), as the sequence of its decimal digits
RECURSIVE StrOfInt(_)
StrOfInt(n) == IF n < 10 THEN <<n>> ELSE Append(StrOfInt(n \div 10), n % 10)

\* int(s)
RECURSIVE IntOfStr(_)
IntOfStr(s) ==
    IF Len(s) = 1 THEN s[1] ELSE 10 * IntOfStr(SubSeq(s, 1, Len(s) - 1)) + s[Len(s)]

\* request.form after predict_json: days and category as strings, when the
\* payload has them (<<>> and "" stand for a field the form lacks)
FormOf(payload) ==
    [days     |-> IF payload.days.has THEN StrOfInt(payload.days.n) ELSE <<>>,
     category |-> IF ~payload.category.has THEN ""
                  ELSE IF payload.category.null THEN "None"
                  ELSE payload.category.s]

\* int(request.form.get("days", 7))
FormDays(form) == IF form.days = <<>> THEN DEFAULT_DAYS ELSE IntOfStr(form.days)

JsonReq(payload, frame, days, cat) ==
    [frame |-> frame, days |-> days, category |-> cat, entry |-> "json", payload |-> payload]

\* predict_json, up to the first predictor call of predict_csv
RequestJson(payload) ==
    /\ pc = "idle"
    /\ IF ~payload.isJson
       THEN /\ req' = JsonReq(payload, NoReq.frame, 0, "")
            /\ resp' = ErrorResp(415, "Content-Type must be application/json", 0, 0)
            /\ pc' = "done"
            /\ UNCHANGED <<df, freq, category, horizon, prophetError, seq, preds, calls,
                           transforms, loads, predictor, disk>>
       ELSE IF payload.records = <<>>
       THEN /\ req' = JsonReq(payload, NoReq.frame, 0, "")
            /\ resp' = ErrorResp(400, "Provide non-empty 'records' array.", 0, 0)
            /\ pc' = "done"
            /\ UNCHANGED <<df, freq, category, horizon, prophetError, seq, preds, calls,
                           transforms, loads, predictor, disk>>
       ELSE /\ req' = JsonReq(payload, ReadCsv(ToCsv(DataFrame(payload.records))),
                              FormDays(FormOf(payload)), FormOf(payload).category)
            /\ PredictCsv(ReadCsv(ToCsv(DataFrame(payload.records))),
                          FormDays(FormOf(payload)), FormOf(payload).category)

NextJson ==
    \/ \E payload \in Payloads : RequestJson(payload)
    \/ \E p \in PredVals : ForecastStep(p)
    \/ ForecastRaise
    \/ ForecastReturn
    \/ \E last \in ProphetHistoryEnds : ProphetForecast(last)
    \/ \E e \in ProphetErrors : ProphetFails(e)
    \/ Respond

SpecJson == Init /\ [][NextJson]_vars

-----------------------------------------------------------------------------
(* predict_csv on an hourly upload with a long horizon: the loop of         *)
(* _multi_step_forecast turn by turn, the sequence model answering the same *)
(* value every time                                                         *)

MaxLongDays == 1001

\* the form field days of the long requests
LongDays == (MaxLongDays - 1)..MaxLongDays

HourlyPattern == [kind |-> "alt", g1 |-> 60, g2 |-> 60]

\* predict_csv with SEQ_LEN hourly rows and more days than the requests of Spec
RequestLong(days) ==
    /\ days > MaxDays
    /\ Request(SEQ_LEN, HourlyPattern, "ramp", {DATE_COL} \cup Channels, days, "")

NextHorizon ==
    \/ \E days \in LongDays : RequestLong(days)
    \/ ForecastStep(2)
    \/ ForecastRaise
    \/ ForecastReturn
    \/ Respond

SpecHorizon == Init /\ [][NextHorizon]_vars

-----------------------------------------------------------------------------
(* _detect_frequency on its own: the library's inference first, then the    *)
(* manual rule, on series of every combination of a few gaps                *)

MaxDetectGaps == 3

\* gaps in minutes: a minute, an hour, a day, a week, four and five weeks
DetectGaps == { 1, 60, 24 * 60, 7 * 24 * 60, 28 * 24 * 60, 35 * 24 * 60 }

DetectSeqs == UNION { [1..k -> DetectGaps] : k \in 1..MaxDetectGaps }

InitDetect ==
    /\ pc = "series"
    /\ df \in { GapFrame(g) : g \in DetectSeqs }
    /\ req = NoReq
    /\ freq = ""
    /\ category = ""
    /\ horizon = 0
    /\ prophetError = ""
    /\ seq = <<>>
    /\ preds = <<>>
    /\ calls = 0
    /\ transforms = 0
    /\ loads = 0
    /\ predictor = NewPredictor
    /\ disk = NoFile
    /\ resp = NoResp

\* _detect_frequency(df); freq is "raise" when the function raises
Detect ==
    /\ pc = "series"
    /\ freq' = DetectFrequency(Stamps(df))
    /\ pc' = "detected"
    /\ UNCHANGED <<req, df, category, horizon, prophetError, seq, preds, calls,
                   transforms, loads, predictor, disk, resp>>

NextDetect == Detect

SpecDetect == InitDetect /\ [][NextDetect]_vars

-----------------------------------------------------------------------------
(* _multi_step_forecast on its own: hourly uploads of SEQ_LEN rows or one   *)
(* more, with horizons up to more than SEQ_LEN turns of the loop            *)

MaxWindowDays == 5

WindowDays == 1..MaxWindowDays

\* predict_csv on an hourly upload long enough for the sequence model
RequestWindow(n, days) ==
    /\ n >= SEQ_LEN
    /\ Request(n, HourlyPattern, "ramp", {DATE_COL} \cup Channels, days, "")

NextWindow ==
    \/ \E n \in SEQ_LEN..(SEQ_LEN + 1), days \in WindowDays : RequestWindow(n, days)
    \/ \E p \in PredVals : ForecastStep(p)
    \/ ForecastRaise
    \/ ForecastReturn
    \/ Respond

SpecWindow == Init /\ [][NextWindow]_vars

-----------------------------------------------------------------------------
(* _prep_dataframe called for what it returns or raises: the cleaned rows,  *)
(* or the message of the ValueError and the columns the message names       *)

InitSchema == InitCall("_prep_dataframe", PrepFrames)

PrepCall ==
    /\ req.op = "_prep_dataframe"
    /\ \E sorted \in SortOutcomes(req.arg.rows) : Return(PrepSorted(req.arg, sorted))

NextSchema == PrepCall

SpecSchema == InitSchema /\ [][NextSchema]_vars

-----------------------------------------------------------------------------
(* PharmaSalesPredictor.prepare_features, the post-processing of a column   *)
(* of the feature frame                                                     *)

MaxFeatureRows == 4

Finite(n) == [t |-> "num", n |-> n]

PosInf == [t |-> "inf", n |-> 0]

NegInf == [t |-> "-inf", n |-> 0]

\* the cells of a feature column before the post-processing
FeatureCells == {Finite(1), Finite(2), NaN, PosInf, NegInf}

FeatureColumns == UNION { [1..k -> FeatureCells] : k \in 0..MaxFeatureRows }

\* df.replace([np.inf, -np.inf], np.nan)
ReplaceInf(col) ==
    [i \in 1..Len(col) |-> IF col[i] \in {PosInf, NegInf} THEN NaN ELSE col[i]]

\* fillna(method='bfill'): a missing cell takes the value of the next row,
\* filled from the bottom up
RECURSIVE Bfill(_)
Bfill(col) ==
    IF Len(col) <= 1 THEN col
    ELSE <<IF Head(col) = NaN THEN Head(Bfill(Tail(col))) ELSE Head(col)>>
            \o Bfill(Tail(col))

\* fillna(method='ffill'): a missing cell takes the value of the row before,
\* filled from the top down
RECURSIVE Ffill(_)
Ffill(col) ==
    IF Len(col) <= 1 THEN col
    ELSE Append(Ffill(SubSeq(col, 1, Len(col) - 1)),
                IF col[Len(col)] = NaN
                THEN Ffill(SubSeq(col, 1, Len(col) - 1))[Len(col) - 1]
                ELSE col[Len(col)])

\* fillna(0)
FillZero(col) == [i \in 1..Len(col) |-> IF col[i] = NaN THEN Finite(0) ELSE col[i]]

\* forward-fill before backward-fill
SanitizeForwardFirst(col) == FillZero(Bfill(Ffill(ReplaceInf(col))))

\* df.replace(...); df.fillna(method='bfill').fillna(method='ffill').fillna(0)
Sanitize(col) == FillZero(Ffill(Bfill(ReplaceInf(col))))

InitFeatures == InitCall("prepare_features", FeatureColumns)

PostProcess ==
    /\ req.op = "prepare_features"
    /\ Return(Sanitize(req.arg))

NextFeatures == PostProcess

SpecFeatures == InitFeatures /\ [][NextFeatures]_vars

-----------------------------------------------------------------------------
(* PharmaSalesPredictor: train, predict_single, predict_sequence,           *)
(* save_model and load_model called in any order on one predictor.          *)
(* A value x100/100 * 1.02^k is the record [x100, k].                       *)

MaxTrainRows == 4

MaxPeriods == 3

\* if len(df) < 3
MIN_POINTS == 3

\* data_point.get(target_col, 0), in hundredths
DEFAULT_SINGLE == 0

\* last_data_point.get(target_col, 1000), in hundredths
DEFAULT_BASE == 100000

\* a date far enough from the largest timestamp for every horizon
FarFromMax == MaxPeriods + 1

Val(x100, k) == [x100 |-> x100, k |-> k]

SeasonalCols ==
    <<"year", "month", "quarter", "day_of_year", "week_of_year", "month_sin",
      "month_cos", "quarter_sin", "quarter_cos", "day_sin", "day_cos">>

LagCols == <<"sales_lag1", "sales_lag3", "sales_lag6", "sales_lag12">>

RollingCols ==
    <<"sales_ma3", "sales_std3", "sales_min3", "sales_max3",
      "sales_ma6", "sales_std6", "sales_min6", "sales_max6",
      "sales_ma12", "sales_std12", "sales_min12", "sales_max12">>

TrendCols == <<"trend", "sales_diff", "sales_pct_change">>

\* feature_cols = [col for col in df.columns if col not in exclude_cols], for
\* data with the columns date and sales
FeatureCols(seasonal) ==
    (IF seasonal THEN SeasonalCols ELSE <<>>) \o LagCols \o RollingCols \o TrendCols

\* historical_data: n records with a date and sales; `numeric` is false when
\* they carry one more column, of text
TrainData == [n : 0..MaxTrainRows, numeric : BOOLEAN]

\* a data point: dateSteps is the number of months its date can be advanced
\* before pd.to_datetime or the offset raises, 0 for a missing or unreadable
\* date; sales is absent or a number
DataPoints ==
    [dateSteps : {0, 1, FarFromMax},
     sales : {[has |-> FALSE, v |-> Val(0, 0)]}
                \cup { [has |-> TRUE, v |-> Val(x, 0)] : x \in {0, 5000, 100000} }]

Periods == 0..MaxPeriods

\* the file an earlier save_model left behind
SavedFile(p) ==
    [exists |-> TRUE, is_trained |-> p.is_trained, feature_cols |-> p.feature_cols]

\* prepare_features raises on no record (no date column) and on one record
\* (create_lag_features builds a frame from four scalars)
PrepareFeaturesRaises(n) == n <= 1

\* two points are enough
TooFewPointsOffByOne(n) == n < MIN_POINTS - 1

\* if len(df) < 3: raise ValueError
TooFewPoints(n) == n < MIN_POINTS

\* train raises: in prepare_features, on the length check, or in
\* np.nan_to_num on a column of text
TrainRaises(data) ==
    PrepareFeaturesRaises(data.n) \/ TooFewPoints(data.n) \/ ~data.numeric

\* a call of `op` with `arg` ends in `status` with `value`, the predictor p
\* and the file d
Outcome(op, arg, status, value, p, d) ==
    /\ req' = [op |-> op, arg |-> arg]
    /\ pc' = status
    /\ resp' = [op |-> op, value |-> value]
    /\ predictor' = p
    /\ disk' = d
    /\ UNCHANGED <<df, freq, category, horizon, prophetError, seq, preds, calls,
                   transforms, loads>>

CallStates == {"new", "returned", "raised"}

InitPredictor ==
    /\ pc = "new"
    /\ req = [op |-> "__init__", arg |-> <<>>]
    /\ resp = [op |-> "__init__", value |-> <<>>]
    /\ predictor = NewPredictor
    /\ disk \in {NoFile} \cup
                { SavedFile([is_trained |-> TRUE, feature_cols |-> FeatureCols(s)]) :
                     s \in BOOLEAN }
    /\ df = <<>>
    /\ freq = ""
    /\ category = ""
    /\ horizon = 0
    /\ prophetError = ""
    /\ seq = <<>>
    /\ preds = <<>>
    /\ calls = 0
    /\ transforms = 0
    /\ loads = 0

\* train(historical_data, include_seasonality)
Train(data, seasonal) ==
    /\ pc \in CallStates
    /\ IF TrainRaises(data)
       THEN Outcome("train", data, "raised", "Training error", predictor, disk)
       ELSE Outcome("train", data, "returned", data.n,
                    [is_trained |-> TRUE, feature_cols |-> FeatureCols(seasonal)], disk)

\* predict_single on a trained predictor: prepare_features([data_point])
\* raises, the except clause returns float(data_point.get(target_col, 0))
PredictSingleTrained(point) ==
    IF PrepareFeaturesRaises(1)
    THEN (IF point.sales.has THEN point.sales.v ELSE Val(DEFAULT_SINGLE, 0))
    ELSE Val(0, 0)

\* predict_single(data_point)
PredictSingle(point) ==
    /\ pc \in CallStates
    /\ IF ~predictor.is_trained
       THEN Outcome("predict_single", point, "raised",
                    "Model must be trained before making predictions", predictor, disk)
       ELSE Outcome("predict_single", point, "returned", PredictSingleTrained(point),
                    predictor, disk)

\* the loop of predict_sequence from its turn i, on a predictor that is
\* trained or not: the predictions made and whether a turn raised
RECURSIVE SequenceLoop(_, _, _, _, _)
SequenceLoop(predictions, current, i, periods, trained) ==
    IF i >= periods THEN [preds |-> predictions, raised |-> FALSE]
    ELSE IF i >= current.dateSteps \/ ~trained
    THEN [preds |-> predictions, raised |-> TRUE]
    ELSE SequenceLoop(Append(predictions, PredictSingleTrained(current)),
                      [current EXCEPT !.sales =
                          [has |-> TRUE, v |-> PredictSingleTrained(current)]],
                      i + 1, periods, trained)

\* the except clause of predict_sequence: 2% growth from the last prediction,
\* or base_value * (1 + 0.02 * j) when there is none
TrendFill(predictions, point, periods) ==
    IF predictions # <<>>
    THEN predictions \o
            [j \in 1..(periods - Len(predictions)) |->
                Val(predictions[Len(predictions)].x100,
                    predictions[Len(predictions)].k + j)]
    ELSE [j \in 1..periods |->
            Val(((IF point.sales.has THEN point.sales.v.x100 ELSE DEFAULT_BASE)
                    * (100 + 2 * (j - 1))) \div 100, 0)]

SequenceOf(loop, point, periods) ==
    IF loop.raised THEN TrendFill(loop.preds, point, periods) ELSE loop.preds

\* predict_sequence(last_data_point, forecast_periods)
PredictSequence(point, periods) ==
    /\ pc \in CallStates
    /\ Outcome("predict_sequence", [point |-> point, periods |-> periods], "returned",
               SequenceOf(SequenceLoop(<<>>, point, 0, periods, predictor.is_trained),
                          point, periods),
               predictor, disk)

\* save_model(filepath)
SaveModel ==
    /\ pc \in CallStates
    /\ IF ~predictor.is_trained
       THEN Outcome("save_model", <<>>, "raised", "Cannot save untrained model",
                    predictor, disk)
       ELSE Outcome("save_model", <<>>, "returned", <<>>, predictor, SavedFile(predictor))

\* load_model(filepath)
LoadModel ==
    /\ pc \in CallStates
    /\ IF ~disk.exists
       THEN Outcome("load_model", <<>>, "raised", "Model file not found", predictor, disk)
       ELSE Outcome("load_model", <<>>, "returned", <<>>,
                    [is_trained |-> disk.is_trained, feature_cols |-> disk.feature_cols],
                    disk)

NextPredictor ==
    \/ \E data \in TrainData, seasonal \in BOOLEAN : Train(data, seasonal)
    \/ \E point \in DataPoints : PredictSingle(point)
    \/ \E point \in DataPoints, periods \in Periods : PredictSequence(point, periods)
    \/ SaveModel
    \/ LoadModel

SpecPredictor == InitPredictor /\ [][NextPredictor]_vars

-----------------------------------------------------------------------------
(* Properties *)

Answered(path) == pc = "done" /\ resp.status = 200 /\ resp.path = path

\* the moment a formatted date names, in minutes
MinutesOf(date) == date[1] * 24 * 60 + (IF Len(date) > 1 THEN date[2] ELSE 0)

History == [i \in 1..Len(df) |-> df[i].v[category]]

RECURSIVE SumFrom(_, _)
SumFrom(s, i) == IF i > Len(s) THEN 0 ELSE s[i] + SumFrom(s, i + 1)

\* the k-th smallest of the values of s
Kth(s, k) ==
    CHOOSE x \in Range(s) :
        /\ Cardinality({i \in 1..Len(s) : s[i] < x}) < k
        /\ Cardinality({i \in 1..Len(s) : s[i] <= x}) >= k

\* C1: on the hourly path a request for d days is answered with 24*d
\* forecast entries, one hour apart, the first after the last historical
\* time stamp.
C1_HourlyHorizonIs24PerDay ==
    Answered("lstm") =>
        /\ Len(resp.fcValues) = 24 * req.days
        /\ Len(resp.fcDates) = 24 * req.days
        /\ \A k \in 1..(Len(resp.fcDates) - 1) :
              MinutesOf(resp.fcDates[k + 1]) - MinutesOf(resp.fcDates[k]) = 60
        /\ \A k \in 1..Len(resp.fcDates) : MinutesOf(resp.fcDates[k]) > LastStamp(df)

\* C2: whenever the additive predictor fails, the response is a success
\* flagged as fallback whose forecast has `days` values, each 0.9 times the
\* mean of the last 30 historical values (of all of them when fewer).
C2_FallbackIsTrendOfLast30 ==
    (pc = "done" /\ prophetError # "") =>
        /\ resp.status = 200
        /\ resp.fallback
        /\ Len(resp.fcValues) = req.days
        /\ LET n     == Len(History)
               first == IF n >= 30 THEN n - 29 ELSE 1
           IN  \A k \in 1..Len(resp.fcValues) :
                  /\ resp.fcValues[k].rad = 0
                  /\ 10 * (n - first + 1) * resp.fcValues[k].num
                        = 9 * SumFrom(History, first) * resp.fcValues[k].den

C2_Witness ==
    /\ pc = "done"
    /\ prophetError = "NoModelForCategory"
    /\ req.category = "N02BA"
    /\ freq = "D"
    /\ Len(df) > 30
    /\ req.days >= 2
    /\ resp.fallback
    /\ resp.fcValues[1].num > 0

\* a series is non-hourly when it has no gap or its median gap is above 1.5 h
NonHourly(rows) ==
    \/ Len(rows) < 2
    \/ Kth(Deltas(Stamps(rows)), (Len(rows) + 1) \div 2)
         + Kth(Deltas(Stamps(rows)), Len(rows) \div 2) > 3 * 60

\* C3: a request whose cleaned series is non-hourly and has at least one row,
\* with a positive horizon, never ends in an error response.
C3_NonHourlyNeverErrors ==
    (pc = "done" /\ Len(df) >= 1 /\ NonHourly(df) /\ req.days >= 1)
        => resp.status = 200

\* C4: the manual rule maps the median gap g to hourly if g <= 1.5 h, daily
\* if 1.5 h < g <= 25 h, weekly if 25 h < g <= 200 h, monthly above; 1 h is
\* hourly, 24 h daily, 7 days weekly, 35 days monthly.
C4_ManualRuleThresholds ==
    pc = "classified" =>
        LET gaps == Deltas(Stamps(df))
            n    == Len(gaps)
            g2   == Kth(gaps, (n + 1) \div 2) + Kth(gaps, (n + 2) \div 2)
        IN  /\ freq = "H" <=> g2 <= 3 * 60
            /\ freq = "D" <=> (3 * 60 < g2 /\ g2 <= 50 * 60)
            /\ freq = "W" <=> (50 * 60 < g2 /\ g2 <= 400 * 60)
            /\ freq = "M" <=> g2 > 400 * 60
            /\ Range(gaps) = {60} => freq = "H"
            /\ Range(gaps) = {24 * 60} => freq = "D"
            /\ Range(gaps) = {7 * 24 * 60} => freq = "W"
            /\ Range(gaps) = {35 * 24 * 60} => freq = "M"

C4_Witness ==
    /\ pc = "classified"
    /\ Len(df) = 3
    /\ df[2].ts - df[1].ts = 25 * 60
    /\ df[3].ts - df[2].ts = 25 * 60 + 1
    /\ freq = "W"

\* C5: _multi_step_forecast makes one predictor call per output row on a
\* window of SEQ_LEN rows and returns exactly `horizon` rows of the width of
\* its input.
C5_OneCallPerForecastRow ==
    /\ pc = "forecast" =>
          /\ calls = Len(preds)
          /\ Len(preds) <= horizon
          /\ Len(seq) = SEQ_LEN
    /\ Answered("lstm") =>
          /\ horizon >= 1
          /\ Len(preds) = horizon
          /\ calls = horizon
          /\ Len(resp.fcValues) = horizon
          /\ \A k \in 1..Len(preds) : DOMAIN preds[k] = DOMAIN seq[1]

C5_Witness ==
    /\ Answered("lstm")
    /\ horizon >= 2
    /\ calls = horizon
    /\ Len(preds) = horizon

\* C6: with fewer than SEQ_LEN rows on the sequence-model path the request
\* ends in a 4xx error naming the required and the actual row count, and no
\* predictor call and no scaler transform happens in that request.
C6_ShortHistoryIsRefusedBeforeAnyCall ==
    (pc # "idle" /\ freq = "H" /\ Len(df) < SEQ_LEN) =>
        /\ pc = "done"
        /\ resp.status \in 400..499
        /\ resp.need = SEQ_LEN
        /\ resp.got = Len(df)
        /\ calls = 0
        /\ transforms = 0

C6_Witness ==
    /\ pc = "done"
    /\ freq = "H"
    /\ Len(df) = SEQ_LEN - 1
    /\ resp.status = 400
    /\ resp.got = SEQ_LEN - 1

\* C7: every value the additive path emits lies in [0, 1.5 * historical
\* maximum] of the channel.
C7_AdditiveWithinOneAndAHalfMax ==
    Answered("prophet") =>
        \A k \in 1..Len(resp.fcValues) :
            /\ QLe(Q(0, 1), resp.fcValues[k])
            /\ QLe(resp.fcValues[k], Q(3 * Max(Range(History)), 2))

\* C8: no successful forecast response, on any path, holds a negative
\* forecast value.
C8_NoNegativeForecast ==
    (pc = "done" /\ resp.status = 200) =>
        \A k \in 1..Len(resp.fcValues) : NonNeg(resp.fcValues[k])

\* C9: in every successful response the number of forecast dates equals the
\* number of forecast values, and both equal the requested horizon (days).
C9_ForecastLengthIsHorizon ==
    (pc = "done" /\ resp.status = 200) =>
        /\ Len(resp.fcDates) = Len(resp.fcValues)
        /\ Len(resp.fcValues) = req.days

C9_Witness ==
    /\ pc = "done"
    /\ resp.status = 200
    /\ resp.path = "fallback"
    /\ req.days >= 2
    /\ Len(resp.fcDates) = req.days

MonthOfDay(day) == Civil(day).y * 12 + Civil(day).m

\* C10: on the non-hourly path every forecast date is after the last
\* uploaded time stamp, and consecutive forecast dates are one day, one week
\* or one calendar month apart, as the detected frequency says.
C10_DatesFollowTheUploadAtItsCadence ==
    (pc = "done" /\ resp.status = 200 /\ resp.path \in {"prophet", "fallback"}) =>
        /\ \A k \in 1..Len(resp.fcDates) : resp.fcDates[k][1] > DayOf(LastStamp(df))
        /\ \A k \in 1..(Len(resp.fcDates) - 1) :
              CASE freq = "D" -> resp.fcDates[k + 1][1] - resp.fcDates[k][1] = 1
                [] freq = "W" -> resp.fcDates[k + 1][1] - resp.fcDates[k][1] = 7
                [] freq = "M" -> MonthOfDay(resp.fcDates[k + 1][1])
                                   = MonthOfDay(resp.fcDates[k][1]) + 1

\* C11: the time stamps of every frame the cleaner returns are strictly
\* increasing, also when rows of the input share a time stamp.
C11_CleanedStampsStrictlyIncrease ==
    pc \in {"cleaned", "recleaned"} =>
        \A i, j \in 1..Len(df) : i < j => df[i].ts < df[j].ts

\* C12: every channel value of every row the cleaner returns is finite:
\* neither missing nor infinite.
C12_CleanedValuesAreFinite ==
    pc \in {"cleaned", "recleaned"} =>
        \A i \in 1..Len(df) : df[i].na = {} /\ df[i].inf = {}

\* C13: the cleaner applied to its own output succeeds and returns that
\* output: same rows, same order, same values.
C13_CleaningIsIdempotent ==
    /\ pc = "recleaned" => df = req.frame.rows
    /\ pc = "rejected" => req.frame.cols # CleanFrame(df).cols

\* C14: frequency detection on a cleaned series of fewer than 2 records ends
\* in a caller-fault (4xx) error and returns no frequency; on a series of 2 or
\* more records it returns one of hourly/daily/weekly/monthly without error.
C14_ShortSeriesIsACallerFault ==
    (pc = "done" /\ PrepDataframe(req.frame).ok) =>
        /\ Len(df) < 2 => (freq = "" /\ resp.status \in 400..499)
        /\ Len(df) >= 2 => freq \in {"H", "D", "W", "M"}

\* C15: an error response has a 4xx status when the fault is in the caller's
\* input (a schema error of the cleaner, too little history) and a 5xx status
\* only when the predictor failed.
C15_CallerFaultsAre4xx ==
    (pc = "done" /\ resp.status # 200) =>
        /\ resp.status \in 400..599
        /\ ~PrepDataframe(req.frame).ok => resp.status \in 400..499
        /\ (freq = "H" /\ TooShort(Len(df))) => resp.status \in 400..499
        /\ resp.status \in 500..599 => (freq = "H" /\ calls > 0)

\* the problems present in a list of records, as the errors that name them
ProblemsOf(items) ==
    UNION { Range(RecordErrors(i - 1, items[i])) : i \in 1..Len(items) }

\* C16: the error list of validate_data_format has an entry for every problem
\* present in the data, whichever record holds it, and is_valid is true
\* exactly when the error list is empty.
C16_EveryProblemIsReported ==
    pc = "returned" =>
        /\ resp.value.is_valid <=> resp.value.errors = <<>>
        /\ req.arg.isList => ProblemsOf(req.arg.items) \subseteq Range(resp.value.errors)
        /\ (~req.arg.isList \/ req.arg.items = <<>>) => resp.value.errors # <<>>

\* a = b for the fractions a and b
SameFraction(a, b) == a.rad = 0 /\ b.rad = 0 /\ a.num * b.den = b.num * a.den

\* C17: calculate_statistics returns the mean, median, min and max of the
\* column and, for 2 or more dated points, growth_rate = (last - first) /
\* first * 100 between the chronologically first and last point, 0 when the
\* first value is 0; 10, 20, 30 in date order give 20, 20, 10, 30 and 200.
C17_StatisticsAndGrowthRate ==
    (pc = "returned" /\ req.arg.hasColumn /\ req.arg.rows # <<>>) =>
        LET rows == req.arg.rows
            vals == [i \in 1..Len(rows) |-> rows[i].sales]
            n    == Len(rows)
            st   == resp.value
        IN  /\ ~st.empty
            /\ st.mean.num * n = SumFrom(vals, 1) * st.mean.den
            /\ 2 * st.median.num
                  = (Kth(vals, (n + 1) \div 2) + Kth(vals, (n + 2) \div 2)) * st.median.den
            /\ \A i \in 1..n : st.min <= vals[i] /\ vals[i] <= st.max
            /\ st.min \in Range(vals) /\ st.max \in Range(vals)
            /\ (req.arg.hasDate /\ n >= 2) =>
                  /\ st.hasGrowth
                  /\ \E i, j \in 1..n :
                        /\ i # j
                        /\ \A k \in 1..n : rows[i].date <= rows[k].date
                        /\ \A k \in 1..n : rows[k].date <= rows[j].date
                        /\ IF rows[i].sales = 0
                           THEN st.growth_rate.num = 0
                           ELSE st.growth_rate.num * rows[i].sales
                                  = (rows[j].sales - rows[i].sales) * 100
                                      * st.growth_rate.den
            /\ rows = <<[date |-> 1, sales |-> 10], [date |-> 2, sales |-> 20],
                        [date |-> 3, sales |-> 30]>> =>
                  /\ SameFraction(st.mean, Q(20, 1))
                  /\ SameFraction(st.median, Q(20, 1))
                  /\ st.min = 10 /\ st.max = 30
                  /\ SameFraction(st.growth_rate, Q(200, 1))

C17_Witness ==
    /\ pc = "returned"
    /\ req.arg.rows = <<[date |-> 3, sales |-> 30], [date |-> 1, sales |-> 10],
                        [date |-> 2, sales |-> 20]>>
    /\ SameFraction(resp.value.growth_rate, Q(200, 1))
    /\ SameFraction(resp.value.mean, Q(20, 1))

\* 4 * the quartile q of the values s, from the order statistics of s
QuartileOf(s, q) ==
    LET h == q * (Len(s) - 1)
        k == h \div 4
        r == h % 4
    IN  (4 - r) * Kth(s, k + 1) + r * Kth(s, Min({k + 2, Len(s)}))

\* the positions the IQR rule names: below Q1 - 1.5 IQR or above Q3 + 1.5 IQR
IqrPositions(s) ==
    { i \in 0..(Len(s) - 1) :
        \/ 8 * s[i + 1] < 5 * QuartileOf(s, 1) - 3 * QuartileOf(s, 3)
        \/ 8 * s[i + 1] > 5 * QuartileOf(s, 3) - 3 * QuartileOf(s, 1) }

\* n * |v - mean| for the value v of the column s
DistN(s, v) ==
    IF Len(s) * v >= SumFrom(s, 1) THEN Len(s) * v - SumFrom(s, 1)
    ELSE SumFrom(s, 1) - Len(s) * v

\* n^2 * the population variance of s
VarOf(s) ==
    Len(s) * SumFrom([i \in 1..Len(s) |-> s[i] * s[i]], 1) - SumFrom(s, 1) * SumFrom(s, 1)

\* the positions whose z-score |v - mean| / std exceeds 3
ZPositions(s) ==
    { i \in 0..(Len(s) - 1) : DistN(s, s[i + 1]) * DistN(s, s[i + 1]) > 9 * VarOf(s) }

\* the positions whose guarded z-score |v - mean| / (std + 1e-8) exceeds 3
GuardedZPositions(s) ==
    { i \in 0..(Len(s) - 1) :
        /\ DistN(s, s[i + 1]) > 3 * Len(s)
        /\ (DistN(s, s[i + 1]) - 3 * Len(s)) * (DistN(s, s[i + 1]) - 3 * Len(s))
             > 9 * VarOf(s) }

\* C18 as stated: with iqr the indices are exactly the positions outside
\* [Q1 - 1.5 IQR, Q3 + 1.5 IQR] (index 4 for 1, 2, 3, 4, 100) and
\* outlier_count is their number; with zscore exactly the positions whose
\* z-score against the population mean and standard deviation exceeds 3.
C18_OutliersAreExactlyTheFlagged ==
    (pc = "returned" /\ req.arg.hasColumn) =>
        /\ req.arg.method = "iqr" =>
              /\ Range(resp.value.indices) = IqrPositions(req.arg.values)
              /\ resp.value.outlier_count = Len(resp.value.indices)
              /\ req.arg.values = <<1, 2, 3, 4, 100>> => resp.value.indices = <<4>>
        /\ req.arg.method = "zscore" =>
              /\ Range(resp.value.indices) = ZPositions(req.arg.values)
              /\ resp.value.outlier_count = Len(resp.value.indices)

\* C18, amended: as above, the z-score being |v - mean| / (std + 1e-8).
C18_OutliersWithGuardedZScore ==
    (pc = "returned" /\ req.arg.hasColumn) =>
        /\ req.arg.method = "iqr" =>
              /\ Range(resp.value.indices) = IqrPositions(req.arg.values)
              /\ resp.value.outlier_count = Len(resp.value.indices)
              /\ Cardinality(Range(resp.value.indices)) = Len(resp.value.indices)
              /\ req.arg.values = <<1, 2, 3, 4, 100>> => resp.value.indices = <<4>>
        /\ req.arg.method = "zscore" =>
              /\ Range(resp.value.indices) = GuardedZPositions(req.arg.values)
              /\ resp.value.outlier_count = Len(resp.value.indices)
              /\ Cardinality(Range(resp.value.indices)) = Len(resp.value.indices)

C18_Witness ==
    /\ pc = "returned"
    /\ req.arg.method = "zscore"
    /\ Len(req.arg.values) = MaxZRows
    /\ req.arg.values[3] = 1000
    /\ resp.value.indices = <<2>>

\* the upload of the same rows in tabular form: a column per key, a line per
\* record, the cell of a channel the record has no number for left empty
TabularForm(records) ==
    [cols |-> UNION { DOMAIN records[i] : i \in 1..Len(records) },
     rows |-> [i \in 1..Len(records) |->
                 [ts  |-> IF DATE_COL \in DOMAIN records[i] THEN records[i][DATE_COL].n ELSE 0,
                  v   |-> [c \in Channels |->
                             IF c \in DOMAIN records[i] /\ records[i][c].t = "num"
                             THEN records[i][c].n ELSE 0],
                  na  |-> { c \in Channels \cap UNION { DOMAIN records[j] : j \in 1..Len(records) } :
                              c \notin DOMAIN records[i] \/ records[i][c].t # "num" },
                  inf |-> {}]]]

\* the days and the category of the bulk upload with the same parameters
SameDays(payload) == IF payload.days.has THEN payload.days.n ELSE DEFAULT_DAYS

SameCategory(payload) ==
    IF payload.category.has /\ ~payload.category.null THEN payload.category.s ELSE ""

\* C19: a structured submission with a non-empty list of records leaves the
\* handler where the bulk upload of the same rows in tabular form, with the
\* same days and category, leaves it (the same response when it ends there,
\* the same cleaned frame, frequency, category, horizon and first predictor
\* input otherwise, from which the same steps follow).
C19_JsonEntryEqualsCsvEntry ==
    [][(/\ pc = "idle"
        /\ pc' # "idle"
        /\ req'.payload.isJson
        /\ req'.payload.records # <<>>)
          => PredictCsv(TabularForm(req'.payload.records), SameDays(req'.payload),
                        SameCategory(req'.payload))]_vars

C19_Witness ==
    /\ pc = "done"
    /\ req.entry = "json"
    /\ Len(req.payload.records) = 4
    /\ DOMAIN req.payload.records[1] = {DATE_COL} \cup Channels
    /\ req.payload.records[1][DATE_COL] = JStr(Start0)
    /\ req.payload.records[1][HoleChannel] = JNull
    /\ req.payload.category.null
    /\ req.payload.days = [has |-> TRUE, n |-> MaxJsonDays]
    /\ req.frame.rows[1].na = {HoleChannel}
    /\ resp.status = 200
    /\ resp.path = "lstm"
    /\ Len(resp.fcValues) = MaxJsonDays

\* C20: a request whose horizon exceeds 1000 is refused before the sequence
\* predictor is called, so that no request makes more than 1000 predictor
\* calls.
C20_LongHorizonIsRefused ==
    /\ (pc # "idle" /\ req.days > 1000) =>
          /\ calls = 0
          /\ pc = "done"
          /\ resp.status \in 400..499
    /\ calls <= 1000

\* twice the median of the gaps of the rows, in minutes
TwiceMedianGap(rows) ==
    Kth(Deltas(Stamps(rows)), Len(rows) \div 2)
      + Kth(Deltas(Stamps(rows)), (Len(rows) + 1) \div 2)

\* the classification of a median gap by the manual rule
MedianGapClass(g2) ==
    IF g2 <= 3 * 60 THEN "H"
    ELSE IF g2 <= 50 * 60 THEN "D"
    ELSE IF g2 <= 400 * 60 THEN "W"
    ELSE "M"

\* C21: for every series of at least 2 records the frequency that
\* _detect_frequency returns is the median-gap classification of the series,
\* whatever the library-assisted inference answers.
C21_DetectedIsMedianGapClass ==
    (pc = "detected" /\ Len(df) >= 2) => freq = MedianGapClass(TwiceMedianGap(df))

\* the window the caller hands to _multi_step_forecast: the last SEQ_LEN
\* scaled rows of the cleaned frame
InputWindow ==
    [i \in 1..SEQ_LEN |->
        [c \in Channels |-> ScalerTransform(df[Len(df) - SEQ_LEN + i].v[c])]]

\* C22: during _multi_step_forecast the window has exactly SEQ_LEN rows;
\* before step k <= SEQ_LEN it is the last SEQ_LEN - k rows of the input
\* window followed by the k rows predicted so far, in their order; the data
\* the input window is taken from is not modified by the loop.
C22_WindowSlides ==
    /\ [](pc = "forecast" =>
            /\ Len(seq) = SEQ_LEN
            /\ Len(preds) <= SEQ_LEN =>
                  seq = SubSeq(InputWindow, Len(preds) + 1, SEQ_LEN) \o preds)
    /\ [][pc = "forecast" => df' = df]_vars

C22_Witness ==
    /\ pc = "forecast"
    /\ Len(preds) = SEQ_LEN - 1
    /\ Len(df) = SEQ_LEN + 1
    /\ seq[1] = [c \in Channels |-> ScalerTransform(df[Len(df)].v[c])]
    /\ seq[2] # seq[3]
    /\ seq[3] # seq[4]

\* the historical maximum of the requested channel, 1 when it is not positive
HistoricalMax == IF Max(Range(History)) > 0 THEN Max(Range(History)) ELSE 1

\* the value the sequence model gave for the requested channel at step k
Predicted(k) == ScalerInverse(preds[k][category])

\* v <= historical_max + 2 * historical_std for the whole number v:
\* n * (v - max) <= 2 * sqrt(n * sum(x^2) - sum(x)^2)
WithinBound(v) ==
    \/ v <= HistoricalMax
    \/ (Len(History) * (v - HistoricalMax)) * (Len(History) * (v - HistoricalMax))
         <= 4 * VarOf(History)

\* historical_max + 2 * historical_std, as (num + 2 * sqrt(rad)) / den
UpperBound ==
    [num |-> Len(History) * HistoricalMax, rad |-> VarOf(History), den |-> Len(History)]

\* C23: on the sequence path every forecast value lies in
\* [0, historical_max + 2 * historical_std] of the requested channel, the
\* maximum replaced by 1.0 when it is not positive; a predicted value inside
\* the interval is returned unchanged.
C23_SequenceForecastIsClamped ==
    Answered("lstm") =>
        \A k \in 1..Len(resp.fcValues) :
            /\ \/ resp.fcValues[k] = UpperBound
               \/ /\ resp.fcValues[k].rad = 0
                  /\ resp.fcValues[k].den = 1
                  /\ resp.fcValues[k].num >= 0
                  /\ WithinBound(resp.fcValues[k].num)
            /\ (Predicted(k) >= 0 /\ WithinBound(Predicted(k)))
                  => resp.fcValues[k] = Q(Predicted(k), 1)

C23_Witness ==
    /\ Answered("lstm")
    /\ Max(Range(History)) < 0
    /\ Len(resp.fcValues) = 2
    /\ Predicted(1) = 2
    /\ resp.fcValues[1] = Q(2, 1)
    /\ Predicted(2) = 60
    /\ resp.fcValues[2] = UpperBound
    /\ UpperBound.num = Len(History)

\* the request has ended in an internal error: no forecast, no fallback
Surfaced(r) ==
    /\ r.status \in 500..599
    /\ r.fcValues = <<>>
    /\ r.fcDates = <<>>
    /\ ~r.fallback

\* C24: a failure of the sequence predictor or of the scaler on the hourly
\* path ends the request in an internal (5xx) error response without a
\* forecast or a fallback; a failure while loading, selecting or querying the
\* additive predictor ends it in the trend fallback, never in an error
\* response.
C24_SequenceFailsLoudAdditiveFallsBack ==
    /\ [][(ForecastRaise \/ InverseTransformRaise)
            => (freq = "H" /\ pc' = "done" /\ Surfaced(resp'))]_vars
    /\ [][(pc = "prophet" /\ prophetError' # "")
            => /\ freq # "H"
               /\ pc' = "done"
               /\ resp'.status = 200
               /\ resp'.error = ""
               /\ resp'.fallback
               /\ resp'.path = "fallback"
               /\ Len(resp'.fcValues) = req.days]_vars

C24_Witness ==
    /\ pc = "done"
    /\ freq = "H"
    /\ calls = 2
    /\ Len(preds) = 1
    /\ Surfaced(resp)

\* the required columns a header lacks: the time stamp column, when no
\* column is named like it, and every channel that is not a column
OffendingFields(cols) ==
    (IF \E c \in cols : StripLower(c) = DATE_COL THEN {} ELSE {DATE_COL})
    \cup (Channels \ cols)

\* C25: a frame that lacks required columns is refused with an error that
\* names every offending field: every missing channel, and the time stamp
\* column together with every missing channel when both are missing.
C25_EveryOffendingFieldIsNamed ==
    (pc = "returned" /\ OffendingFields(req.arg.cols) # {}) =>
        /\ ~resp.value.ok
        /\ Range(resp.value.missing) = OffendingFields(req.arg.cols)

\* the positions of the input rows the cleaner has to keep
KeptPositions(rows) == { i \in 1..Len(rows) : rows[i].na # Channels }

\* an input row with its missing channel values replaced by 0
Filled(r) ==
    [ts  |-> r.ts,
     v   |-> [c \in Channels |-> IF c \in r.na THEN 0 ELSE r.v[c]],
     na  |-> {},
     inf |-> r.inf]

\* C26: the cleaner drops exactly the rows in which every channel value is
\* missing and keeps every other row; in the kept rows each missing value is
\* 0 and each present value is unchanged; the output has no missing value and
\* its rows are the kept input rows in ascending order of their time stamps.
C26_CleanerDropsAndFills ==
    pc = "cleaned" =>
        /\ Len(df) = Cardinality(KeptPositions(req.frame.rows))
        /\ \E p \in [1..Len(df) -> KeptPositions(req.frame.rows)] :
              /\ \A i, j \in 1..Len(df) : i # j => p[i] # p[j]
              /\ \A i \in 1..Len(df) : df[i] = Filled(req.frame.rows[p[i]])
        /\ \A i \in 1..Len(df) : df[i].na = {}
        /\ \A i \in 1..(Len(df) - 1) : df[i].ts <= df[i + 1].ts

C26_Witness ==
    /\ pc = "cleaned"
    /\ Len(req.frame.rows) = 2
    /\ req.frame.rows[1].na = Channels
    /\ req.frame.rows[2].na = {"M01AB"}
    /\ req.frame.rows[2].v["R06"] = 3
    /\ Len(df) = 1
    /\ df[1].v["M01AB"] = 0
    /\ df[1].v["R06"] = 3
    /\ df[1].na = {}

\* the errors of the list that report the required column col as missing
MissingColumnErrors(errors, col) ==
    { k \in 1..Len(errors) :
        errors[k].what = "missing required column" /\ errors[k].col = col }

\* C27: a required column that no record of the dataset has is reported by
\* validate_data_format as one error for the whole dataset: at most one
\* missing-column error per required column, however many rows there are.
C27_MissingColumnIsReportedOnce ==
    (pc = "returned" /\ req.arg.isList) =>
        \A col \in Range(RequiredColumns) :
            (\A i \in 1..Len(req.arg.items) :
                req.arg.items[i].isDict /\ col \notin req.arg.items[i].keys)
              => Cardinality(MissingColumnErrors(resp.value.errors, col)) <= 1

\* the rows of the column col that hold a finite value
FiniteRows(col) == { j \in 1..Len(col) : col[j].t = "num" }

\* C28: after the post-processing of prepare_features no cell is NaN or
\* infinite; a cell that was missing or infinite holds the nearest later
\* finite value of its column, without one the nearest earlier finite value,
\* without one 0; a cell that was finite is unchanged.
C28_FeaturesAreSanitized ==
    pc = "returned" =>
        /\ Len(resp.value) = Len(req.arg)
        /\ \A i \in 1..Len(req.arg) :
              /\ resp.value[i].t = "num"
              /\ resp.value[i] =
                    IF i \in FiniteRows(req.arg) THEN req.arg[i]
                    ELSE IF \E j \in FiniteRows(req.arg) : j > i
                    THEN req.arg[Min({ j \in FiniteRows(req.arg) : j > i })]
                    ELSE IF \E j \in FiniteRows(req.arg) : j < i
                    THEN req.arg[Max({ j \in FiniteRows(req.arg) : j < i })]
                    ELSE Finite(0)

C28_Witness ==
    /\ pc = "returned"
    /\ req.arg = <<PosInf, Finite(1), NaN, Finite(2)>>
    /\ resp.value = <<Finite(1), Finite(1), Finite(2), Finite(2)>>

\* C29: the artifacts are loaded at startup and never by a request handler:
\* whatever requests are served, no handler performs a load operation.
C29_NoHandlerLoadsAnArtifact == loads = 0

\* no call changed is_trained or feature_cols in this step
SameTraining ==
    /\ predictor'.is_trained = predictor.is_trained
    /\ predictor'.feature_cols = predictor.feature_cols

\* C30: over any sequence of calls on a PharmaSalesPredictor, is_trained
\* becomes true only by a completed train call on at least 3 data points or
\* by a completed load_model; a train call that raises, and every
\* predict_single or save_model call on an untrained predictor, raises and
\* leaves is_trained and feature_cols as they were; predict_sequence returns
\* exactly forecast_periods values, trained or not.
C30_PredictorLifecycle ==
    /\ [](predictor.is_trained = FALSE \/ pc # "new")
    /\ [][(~predictor.is_trained /\ predictor'.is_trained) =>
             /\ pc' = "returned"
             /\ \/ req'.op = "train" /\ req'.arg.n >= 3
                \/ req'.op = "load_model"]_vars
    /\ [][(req'.op = "train" /\ pc' = "raised") => SameTraining]_vars
    /\ [][(req'.op \in {"predict_single", "save_model"} /\ ~predictor.is_trained) =>
             (pc' = "raised" /\ SameTraining)]_vars
    /\ [](req.op = "predict_sequence" =>
             (pc = "returned" /\ Len(resp.value) = req.arg.periods))

C30_Witness ==
    /\ pc = "returned"
    /\ req.op = "predict_sequence"
    /\ req.arg.periods = MaxPeriods
    /\ ~predictor.is_trained
    /\ disk.exists
    /\ Len(resp.value) = MaxPeriods
    /\ resp.value[MaxPeriods] = Val(5000 + 100 * (MaxPeriods - 1), 0)

====
